---- MODULE Spec2Model ----
(***************************************************************************)
(* Model of the Grepr API client core (internal/client): the token         *)
(* manager (getToken / FetchToken), the request executor (doRequest,       *)
(* calculateBackoff), the error classifier (APIError), the response        *)
(* interpreter (handleResponse), the Job operations and the three poll     *)
(* loops (WaitForState, WaitForStableState, WaitForDeletion); of the       *)
(* Create and Update handlers of the pipeline resource                     *)
(* (internal/resources/pipeline), run against an API server that keeps     *)
(* one versioned job; and of the provider's Configure (internal/provider). *)
(*                                                                         *)
(* Time is the wall clock in milliseconds; a time.Duration that is         *)
(* computed is a 64-bit word of nanoseconds.  Errors are records           *)
(* [kind, status, msg, cause]; cause is <<>> or <<e>> for an error that    *)
(* wraps e with %w.  The nil error is NilErr, the nil response NilResp,    *)
(* the nil *Job NilJob.                                                    *)
(***************************************************************************)
EXTENDS Integers, Sequences, FiniteSets, TLC

VARIABLES
    now,          \* time.Now(), in ms
    cancelled,    \* ctx.Done() is closed
    cancelledAt,  \* the time at which ctx.Done() was closed
    opc,          \* position inside the operation called on the client
    oin,          \* the operation called and its arguments
    oret,         \* what the operation returned
    server,       \* the API server: its job, and what has happened to it
    hpc,          \* position inside the handler of the pipeline resource
    hin,          \* the handler called, its plan and its prior state
    hout,         \* what the handler has done: client calls, diagnostics, state
    accessToken,  \* Client.accessToken
    tokenExpiry,  \* Client.tokenExpiry, in ms
    readers,      \* goroutines holding tokenMu.RLock
    writer,       \* goroutine holding tokenMu.Lock, or NoOne
    gpc,          \* position of each goroutine inside getToken
    gret,         \* what each goroutine's getToken returned: [token, err]
    gstale,       \* whether the cached token was stale when the goroutine called getToken
    gfetched,     \* whether the goroutine's getToken call called FetchToken
    fetchCalls,   \* number of FetchToken calls started
    fetchLog,     \* the FetchToken calls that returned, in order
    rpc,          \* position inside doRequest
    rin,          \* doRequest's inputs: [body, urlOK]
    attempt,      \* doRequest's loop variable
    token,        \* doRequest's token of the current attempt
    lastErr,      \* doRequest's lastErr
    rret,         \* what doRequest returned: [resp, err]
    rlog,         \* what doRequest did, in order: getToken calls, sends, sleeps
    wpc,          \* position inside WaitForState
    win,          \* the wait called and its inputs: [fn, id, desiredState, timeout]
    deadline,     \* WaitForState's deadline
    timer,        \* when the time.After(pollInterval) of the current select fires
    wret,         \* what WaitForState returned: [job, err]
    polls         \* the GetJob results WaitForState has seen, in order

vars == <<now, cancelled, cancelledAt, opc, oin, oret, server, hpc, hin, hout,
          accessToken, tokenExpiry,
          readers, writer, gpc, gret,
          gstale, gfetched, fetchCalls, fetchLog, rpc, rin, attempt, token,
          lastErr, rret, rlog, wpc, win, deadline, timer, wret, polls>>

ctxVars   == <<cancelled, cancelledAt>>
opVars    == <<opc, oin, oret>>
resVars   == <<hpc, hin, hout>>
tokenVars == <<accessToken, tokenExpiry>>
lockVars  == <<readers, writer>>
gVars     == <<gpc, gret, gstale, gfetched>>
fetchVars == <<fetchCalls, fetchLog>>
reqVars   == <<rpc, rin, attempt, token, lastErr, rret, rlog>>
waitVars  == <<wpc, win, deadline, timer, wret, polls>>

(***************************************************************************)
(* Bounds of the model.                                                    *)
(***************************************************************************)
NumCallers == 2          \* goroutines calling getToken concurrently
MaxTokenTicks == 2       \* clock ticks of the token specification
MaxWaitTicks == 2        \* clock ticks of the wait specification
MaxAttempt == 70         \* largest attempt number given to calculateBackoff
MaxStatusCode == 600     \* largest status code given to an APIError
MaxOtherWrites == 1      \* updates of the job by another writer during one operation
MaxFaults == 1           \* failed exchanges with the server during one operation

Goroutines == 1..NumCallers
NoOne == 0

(***************************************************************************)
(* Program constants.                                                      *)
(***************************************************************************)
tokenRefreshBuffer == 60000
maxRetries == 3
initialRetryDelay == 100
maxRetryDelay == 5000
pollInterval == 5000

(***************************************************************************)
(* Errors, responses.                                                      *)
(***************************************************************************)
NilErr == [kind |-> "nil", status |-> 0, msg |-> "", cause |-> <<>>]
NilResp == [status |-> 0, body |-> ""]

\* errors.New / an error of the transport
NewErr(kind, msg) == [kind |-> kind, status |-> 0, msg |-> msg, cause |-> <<>>]

\* fmt.Errorf(prefix + ": %w", e)
Wrap(kind, prefix, e) ==
    [kind |-> kind, status |-> 0, msg |-> prefix \o ": " \o e.msg, cause |-> <<e>>]

APIError(status, body) ==
    [kind |-> "APIError", status |-> status, msg |-> body, cause |-> <<>>]

ErrorString(e) ==
    IF e.kind = "APIError"
    THEN "API error (status " \o ToString(e.status) \o "): " \o e.msg
    ELSE e.msg

CtxErr == NewErr("context", "context canceled")

\* what c.httpClient.Do returns: (resp, err)
Resp(status, body) == [resp |-> [status |-> status, body |-> body], err |-> NilErr]
TransportFail(e) == [resp |-> NilResp, err |-> e]

(***************************************************************************)
(* Token manager.                                                          *)
(***************************************************************************)
\* c.accessToken != "" && time.Now().Before(c.tokenExpiry)
TokenValidNoBuffer(tok, exp, t) == tok # "" /\ t < exp

\* a validity test that takes an empty token for a token
TokenValidEmptyOK(tok, exp, t) == t + tokenRefreshBuffer < exp

\* c.accessToken != "" && time.Now().Add(tokenRefreshBuffer).Before(c.tokenExpiry)
TokenValid(tok, exp, t) == tok # "" /\ t + tokenRefreshBuffer < exp

NewToken(k) == "new-token-" \o ToString(k)

\* What one FetchToken call can return, as (token, expiresIn, err).
FetchOK(tok, expiresIn) == [token |-> tok, expiresIn |-> expiresIn, err |-> NilErr]
FetchFail(e) == [token |-> "", expiresIn |-> 0, err |-> e]

ExpiresInChoices == {60, 3600}
TokenStatuses == {201, 401, 500}

\* the JSON text of an OAuthTokenResponse
TokenJSON(tok, expiresIn) ==
    "{\"access_token\":\"" \o tok \o "\",\"token_type\":\"Bearer\",\"expires_in\":"
        \o ToString(expiresIn) \o "}"

\* the tokens and lifetimes a token response of the model can carry
TokenTexts == {""} \cup { NewToken(k) : k \in 1..(NumCallers + maxRetries + 1) }
TokenFields == TokenTexts \X ExpiresInChoices

\* json.NewDecoder(resp.Body).Decode(&tokenResp): the fields the text encodes,
\* if it encodes a token response
IsTokenJSON(body) == \E p \in TokenFields : body = TokenJSON(p[1], p[2])
DecodeToken(body) == CHOOSE p \in TokenFields : body = TokenJSON(p[1], p[2])

\* the body of an error answer of the token endpoint
TokenErrorBody == "{\"error\":\"access_denied\"}"

\* what c.httpClient.Do gives the k-th FetchToken call
TokenAnswers(k) ==
    { Resp(200, TokenJSON(NewToken(k), x)) : x \in ExpiresInChoices }
    \cup { Resp(200, TokenJSON("", 3600)) }
    \cup { TransportFail(NewErr("transport", "connection refused")) }
    \cup { Resp(c, IF c < 300 THEN TokenJSON(NewToken(k), 3600) ELSE TokenErrorBody)
           : c \in TokenStatuses }
    \cup { Resp(200, "<html>") }

\* a FetchToken that puts the response body in its error
FetchTokenWithBody(out) ==
    IF out.err # NilErr
    THEN FetchFail(Wrap("fetch", "failed to fetch token", out.err))
    ELSE IF out.resp.status # 200
    THEN FetchFail(NewErr("fetchStatus",
                          "failed to fetch token: status " \o ToString(out.resp.status)
                              \o ": " \o out.resp.body))
    ELSE IF ~IsTokenJSON(out.resp.body)
    THEN FetchFail(Wrap("fetchDecode", "failed to decode token response",
                        NewErr("json", "invalid character '<' looking for beginning of value")))
    ELSE LET p == DecodeToken(out.resp.body) IN FetchOK(p[1], p[2])

\* FetchToken from the answer to its request: (token, expiresIn, err)
FetchToken(out) ==
    IF out.err # NilErr
    THEN FetchFail(Wrap("fetch", "failed to fetch token", out.err))
    ELSE IF out.resp.status # 200
    THEN FetchFail(NewErr("fetchStatus",
                          "failed to fetch token: status " \o ToString(out.resp.status)))
    ELSE IF ~IsTokenJSON(out.resp.body)
    THEN FetchFail(Wrap("fetchDecode", "failed to decode token response",
                        NewErr("json", "invalid character '<' looking for beginning of value")))
    ELSE LET p == DecodeToken(out.resp.body) IN FetchOK(p[1], p[2])

\* c.tokenExpiry = time.Now().Add(time.Duration(expiresIn) * time.Second)
ExpiryOf(t, expiresIn) == t + expiresIn * 1000

\* FetchToken sends its request with ctx: once ctx is cancelled the round-trip
\* fails with the context's error.
FetchTokenOutcomes(k) ==
    IF cancelled
    THEN { TransportFail(CtxErr) }
    ELSE TokenAnswers(k)

\* the zero time.Time of a Client built by NewClient: far in the past (year 1),
\* here a past more distant than any expiry or clock value of the model
ZeroTime == 0 - 2000 * 1000 * 1000

TokenTick == 30 * 1000

\* The cached tokens a client can start with: none (NewClient), or one set
\* earlier, expired or still valid.
InitialTokens ==
    { <<"", ZeroTime>>,
      <<"old-token", 0 - 3600 * 1000>>,
      <<"old-token", tokenRefreshBuffer + TokenTick>>,
      <<"old-token", 3600 * 1000>> }

TokenRet(tok, e) == [token |-> tok, err |-> e]
NoRet == TokenRet("", NilErr)

\* a caller enters getToken
GetTokenCall(g) ==
    /\ gpc[g] = "idle"
    /\ gpc' = [gpc EXCEPT ![g] = "rlock"]
    /\ gstale' = [gstale EXCEPT ![g] = ~TokenValid(accessToken, tokenExpiry, now)]
    /\ UNCHANGED <<now, ctxVars, opVars, server, resVars, tokenVars, lockVars, gret,
                   gfetched, fetchVars, reqVars, waitVars>>

\* c.tokenMu.Lock() in the place of RLock(): a reader excludes other readers
RLockExclusive(g) ==
    /\ gpc[g] = "rlock"
    /\ writer = NoOne
    /\ readers = {}
    /\ readers' = readers \cup {g}
    /\ gpc' = [gpc EXCEPT ![g] = "fast"]
    /\ UNCHANGED <<now, ctxVars, opVars, server, resVars, tokenVars, writer, gret,
                   gstale, gfetched, fetchVars, reqVars, waitVars>>

\* c.tokenMu.RLock(): granted unless a writer holds the lock.  (A writer that
\* waits makes later RLock calls wait too; a caller at "wlock" stands for one
\* that has not yet announced itself, so the reachable states are the same.)
RLock(g) ==
    /\ gpc[g] = "rlock"
    /\ writer = NoOne
    /\ readers' = readers \cup {g}
    /\ gpc' = [gpc EXCEPT ![g] = "fast"]
    /\ UNCHANGED <<now, ctxVars, opVars, server, resVars, tokenVars, writer, gret,
                   gstale, gfetched, fetchVars, reqVars, waitVars>>

\* fast path: the check under the read lock, then RUnlock
FastPath(g) ==
    /\ gpc[g] = "fast"
    /\ readers' = readers \ {g}
    /\ IF TokenValid(accessToken, tokenExpiry, now)
       THEN /\ gret' = [gret EXCEPT ![g] = TokenRet(accessToken, NilErr)]
            /\ gpc' = [gpc EXCEPT ![g] = "done"]
       ELSE /\ gpc' = [gpc EXCEPT ![g] = "wlock"]
            /\ UNCHANGED gret
    /\ UNCHANGED <<now, ctxVars, opVars, server, resVars, tokenVars, writer, gstale,
                   gfetched, fetchVars, reqVars, waitVars>>

\* a slow path that does not wait for the lock to be free
LockShared(g) ==
    /\ gpc[g] = "wlock"
    /\ writer' = g
    /\ gpc' = [gpc EXCEPT ![g] = "slow"]
    /\ UNCHANGED <<now, ctxVars, opVars, server, resVars, tokenVars, readers, gret,
                   gstale, gfetched, fetchVars, reqVars, waitVars>>

\* c.tokenMu.Lock(): granted when no reader and no writer holds the lock
Lock(g) ==
    /\ gpc[g] = "wlock"
    /\ writer = NoOne
    /\ readers = {}
    /\ writer' = g
    /\ gpc' = [gpc EXCEPT ![g] = "slow"]
    /\ UNCHANGED <<now, ctxVars, opVars, server, resVars, tokenVars, readers, gret,
                   gstale, gfetched, fetchVars, reqVars, waitVars>>

\* slow path without the second check: always refresh
DoubleCheckAlwaysFetch(g) ==
    /\ gpc[g] = "slow"
    /\ gpc' = [gpc EXCEPT ![g] = "fetch"]
    /\ gfetched' = [gfetched EXCEPT ![g] = TRUE]
    /\ fetchCalls' = fetchCalls + 1
    /\ UNCHANGED <<now, ctxVars, opVars, server, resVars, tokenVars, lockVars, gret,
                   gstale, fetchLog, reqVars, waitVars>>

\* slow path: the second check under the write lock; a valid token is returned
\* (the deferred Unlock runs), a stale one starts FetchToken
DoubleCheck(g) ==
    /\ gpc[g] = "slow"
    /\ IF TokenValid(accessToken, tokenExpiry, now)
       THEN /\ gret' = [gret EXCEPT ![g] = TokenRet(accessToken, NilErr)]
            /\ gpc' = [gpc EXCEPT ![g] = "done"]
            /\ writer' = NoOne
            /\ UNCHANGED <<gfetched, fetchCalls>>
       ELSE /\ gpc' = [gpc EXCEPT ![g] = "fetch"]
            /\ gfetched' = [gfetched EXCEPT ![g] = TRUE]
            /\ fetchCalls' = fetchCalls + 1
            /\ UNCHANGED <<gret, writer>>
    /\ UNCHANGED <<now, ctxVars, opVars, server, resVars, tokenVars, readers, gstale,
                   fetchLog, reqVars, waitVars>>

\* a getToken that forgets the cached token when FetchToken fails
FetchTokenReturnClears(g) ==
    /\ gpc[g] = "fetch"
    /\ \E out \in FetchTokenOutcomes(fetchCalls) :
         LET r == FetchToken(out)
         IN  /\ fetchLog' = Append(fetchLog, [by |-> g, at |-> now, out |-> out, res |-> r])
             /\ IF r.err # NilErr
                THEN /\ gret' = [gret EXCEPT ![g] = TokenRet("", r.err)]
                     /\ accessToken' = ""
                     /\ tokenExpiry' = ZeroTime
                ELSE /\ accessToken' = r.token
                     /\ tokenExpiry' = ExpiryOf(now, r.expiresIn)
                     /\ gret' = [gret EXCEPT ![g] = TokenRet(r.token, NilErr)]
    /\ writer' = NoOne
    /\ gpc' = [gpc EXCEPT ![g] = "done"]
    /\ UNCHANGED <<now, ctxVars, opVars, server, resVars, readers, gstale, gfetched,
                   fetchCalls, reqVars, waitVars>>

\* FetchToken returns; on success the token and its expiry are stored; the
\* deferred Unlock runs
FetchTokenReturn(g) ==
    /\ gpc[g] = "fetch"
    /\ \E out \in FetchTokenOutcomes(fetchCalls) :
         LET r == FetchToken(out)
         IN  /\ fetchLog' = Append(fetchLog, [by |-> g, at |-> now, out |-> out, res |-> r])
             /\ IF r.err # NilErr
                THEN /\ gret' = [gret EXCEPT ![g] = TokenRet("", r.err)]
                     /\ UNCHANGED tokenVars
                ELSE /\ accessToken' = r.token
                     /\ tokenExpiry' = ExpiryOf(now, r.expiresIn)
                     /\ gret' = [gret EXCEPT ![g] = TokenRet(r.token, NilErr)]
    /\ writer' = NoOne
    /\ gpc' = [gpc EXCEPT ![g] = "done"]
    /\ UNCHANGED <<now, ctxVars, opVars, server, resVars, readers, gstale, gfetched,
                   fetchCalls, reqVars, waitVars>>

\* the wall clock advances while the goroutines run
TokenClock ==
    /\ now < MaxTokenTicks * TokenTick
    /\ now' = now + TokenTick
    /\ UNCHANGED <<ctxVars, opVars, server, resVars, tokenVars, lockVars, gVars,
                   fetchVars, reqVars, waitVars>>

RequestIdle ==
    /\ rpc = "idle"
    /\ rin = [body |-> "nil", urlOK |-> TRUE]
    /\ attempt = 0
    /\ token = ""
    /\ lastErr = NilErr
    /\ rret = [resp |-> NilResp, err |-> NilErr, at |-> ""]
    /\ rlog = [tokens |-> <<>>, sent |-> <<>>, sleeps |-> <<>>]

\* a Job value: the fields of generated.ReadJob that the client and the
\* resource use; JobGraph names the graph ("" is the zero JobGraph)
JobOf(id, name, version, state, desired, graph) ==
    [Id |-> id, Name |-> name, Version |-> version, State |-> state,
     DesiredState |-> desired, JobGraph |-> graph, nil |-> FALSE]

\* a Job of which only Id and State are set, and a nil *Job
Job(id, state) == JobOf(id, "", 0, state, "", "")
NilJob == [Job("", "") EXCEPT !.nil = TRUE]

WaitIdle ==
    /\ wpc = "idle"
    /\ win = [fn |-> "", id |-> "", desiredState |-> "", timeout |-> 0, at |-> 0]
    /\ deadline = 0
    /\ timer = 0
    /\ wret = [job |-> NilJob, err |-> NilErr]
    /\ polls = <<>>

OpIdle ==
    /\ opc = "idle"
    /\ oin = [op |-> ""]
    /\ oret = [err |-> NilErr]

\* no server is modelled and no handler of the resource runs
NoServer == [job |-> NilJob, others |-> 0, faults |-> 0]
NoOutput == [calls |-> <<>>, rets |-> <<>>, diags |-> <<>>, state |-> <<>>, job |-> NilJob]

ResourceIdle ==
    /\ server = NoServer
    /\ hpc = "idle"
    /\ hin = [fn |-> ""]
    /\ hout = NoOutput

CallersIdle ==
    /\ readers = {}
    /\ writer = NoOne
    /\ gpc = [g \in Goroutines |-> "idle"]
    /\ gret = [g \in Goroutines |-> NoRet]
    /\ gstale = [g \in Goroutines |-> FALSE]
    /\ gfetched = [g \in Goroutines |-> FALSE]

InitToken ==
    /\ now = 0
    /\ cancelled = FALSE
    /\ cancelledAt = 0
    /\ ResourceIdle
    /\ OpIdle
    /\ \E t \in InitialTokens : accessToken = t[1] /\ tokenExpiry = t[2]
    /\ CallersIdle
    /\ fetchCalls = 0
    /\ fetchLog = <<>>
    /\ RequestIdle
    /\ WaitIdle

NextToken ==
    \/ \E g \in Goroutines : GetTokenCall(g)
    \/ \E g \in Goroutines : RLock(g)
    \/ \E g \in Goroutines : FastPath(g)
    \/ \E g \in Goroutines : Lock(g)
    \/ \E g \in Goroutines : DoubleCheck(g)
    \/ \E g \in Goroutines : FetchTokenReturn(g)
    \/ TokenClock

SpecToken == InitToken /\ [][NextToken]_vars

(***************************************************************************)
(* Token manager: properties.                                              *)
(***************************************************************************)
AllReturned == \A g \in Goroutines : gpc[g] = "done"

\* the cached token is usable at this instant, spelled out
CachedUsable == accessToken # "" /\ now + 60 * 1000 < tokenExpiry

\* C5: getToken returns the cached token without calling FetchToken exactly
\* when, at its check, the cached token is non-empty and now + 60s is strictly
\* before the cached expiry; otherwise it calls FetchToken and, on success,
\* stores the new token with expiry now + expiresIn seconds and returns it.
C5_CachedIffValid ==
    [][\A g \in Goroutines :
         /\ (gpc[g] \in {"fast", "slow"} /\ gpc'[g] # gpc[g]) =>
               ( ( /\ gpc'[g] = "done"
                   /\ gret'[g] = TokenRet(accessToken, NilErr)
                   /\ ~gfetched'[g]
                   /\ fetchCalls' = fetchCalls )
                 <=> CachedUsable )
         /\ (gpc[g] = "slow" /\ gpc'[g] # "slow" /\ ~CachedUsable) =>
               (gpc'[g] = "fetch" /\ gfetched'[g] /\ fetchCalls' = fetchCalls + 1)
         /\ (gpc[g] = "fetch" /\ gpc'[g] = "done") =>
               LET r == fetchLog'[Len(fetchLog')].res
               IN  /\ Len(fetchLog') = Len(fetchLog) + 1
                   /\ r.err = NilErr =>
                        /\ accessToken' = r.token
                        /\ tokenExpiry' = now + r.expiresIn * 1000
                        /\ gret'[g] = TokenRet(r.token, NilErr)
                   /\ r.err # NilErr => gret'[g] = TokenRet("", r.err)
      ]_vars

\* C5 witness: one caller has refreshed and stored the token with its expiry,
\* another has since been served that token from the cache.
C5_Witness ==
    \E g, h \in Goroutines :
        /\ gpc[g] = "done" /\ gfetched[g] /\ gret[g].err = NilErr
        /\ gret[g].token = accessToken /\ accessToken # ""
        /\ gpc[h] = "done" /\ ~gfetched[h] /\ gret[h] = TokenRet(accessToken, NilErr)
        /\ Len(fetchLog) = 1
        /\ tokenExpiry = fetchLog[1].at + fetchLog[1].res.expiresIn * 1000

\* every caller called getToken while the cached token was expired
AllCalledStale == \A g \in Goroutines : gstale[g]

\* every FetchToken call so far succeeded with a non-empty token that is still
\* usable now
FetchesGood ==
    \A i \in 1..Len(fetchLog) :
        /\ fetchLog[i].res.err = NilErr
        /\ fetchLog[i].res.token # ""
        /\ now + 60 * 1000 < fetchLog[i].at + fetchLog[i].res.expiresIn * 1000

OneFetchServesAll ==
    /\ fetchCalls = 1
    /\ Len(fetchLog) = 1
    /\ \A g \in Goroutines : gret[g] = TokenRet(fetchLog[1].res.token, fetchLog[1].res.err)

Fetching == { g \in Goroutines : gpc[g] = "fetch" }

\* C7: at most one FetchToken round-trip started by getToken is in flight, and
\* it is performed only while holding the exclusive token lock.
C7_OneInFlight ==
    /\ Cardinality(Fetching) <= 1
    /\ \A g \in Fetching : writer = g /\ readers = {}

\* C7 witness: a refresh is in flight while another caller, having found the
\* token stale, waits for the exclusive lock.
C7_Witness ==
    \E g, h \in Goroutines : g # h /\ gpc[g] = "fetch" /\ gpc[h] = "wlock"

\* C8: while a FetchToken round-trip is in flight the cached token is stale, so
\* no caller with a valid token waits behind a refresh; callers on the fast
\* path hold only the shared lock, and a caller asking for the shared lock is
\* granted it whenever no writer holds the lock, whoever else is reading.
C8_ValidReadsNotBlocked ==
    /\ Fetching # {} => ~CachedUsable
    /\ \A g \in Goroutines : gpc[g] = "fast" => (g \in readers /\ writer = NoOne)
    /\ \A g \in Goroutines : (gpc[g] = "rlock" /\ writer = NoOne) => ENABLED RLock(g)

\* C8 witness: two callers hold the shared lock at once while the cached
\* token is valid.
C8_Witness ==
    /\ CachedUsable
    /\ \E g, h \in Goroutines : g # h /\ {g, h} \subseteq readers

\* the FetchToken call that returned last
LastFetch == fetchLog[Len(fetchLog)]

\* the token endpoint answered the FetchToken call f with a status other than 200
AnsweredNot200(f) == f.out.err = NilErr /\ f.out.resp.status # 200

\* C22: when the token endpoint answers with a status other than 200,
\* FetchToken fails with the error "failed to fetch token: status {code}",
\* whatever the response body, and getToken returns that error and leaves the
\* cached token and its expiry unchanged.
C22_TokenStatusError ==
    [][\A g \in Goroutines :
         (gpc[g] = "fetch" /\ gpc'[g] = "done" /\ AnsweredNot200(LastFetch')) =>
             /\ LastFetch'.res.token = ""
             /\ LastFetch'.res.err.msg =
                    "failed to fetch token: status " \o ToString(LastFetch'.out.resp.status)
             /\ LastFetch'.res.err.cause = <<>>
             /\ gret'[g] = TokenRet("", LastFetch'.res.err)
             /\ accessToken' = accessToken
             /\ tokenExpiry' = tokenExpiry
      ]_vars

\* C22 witness: a 401 carrying an error body, and a 201 carrying a token, both
\* gave the bare status error, and the old cached token is still in place.
C22_Witness ==
    /\ Len(fetchLog) = 2
    /\ fetchLog[1].out = Resp(401, TokenErrorBody)
    /\ fetchLog[1].res.err.msg = "failed to fetch token: status 401"
    /\ fetchLog[2].out = Resp(201, TokenJSON(NewToken(2), 3600))
    /\ fetchLog[2].res.err.msg = "failed to fetch token: status 201"
    /\ accessToken = "old-token" /\ tokenExpiry = 0 - 3600 * 1000
    /\ \A g \in Goroutines : gpc[g] = "done" => gret[g].token = "" /\ gret[g].err # NilErr

\* C29: when FetchToken fails inside getToken (transport error, status other
\* than 200, body that cannot be decoded), getToken returns the empty token
\* and the error, leaves accessToken and tokenExpiry as they were and releases
\* the exclusive lock; the failure is not cached: a caller only ever returns
\* the error of its own FetchToken, and a caller that finds the token stale
\* under the exclusive lock calls FetchToken, whatever failed before.
C29_FailureNotCached ==
    /\ [][\A g \in Goroutines :
            /\ (gpc[g] = "fetch" /\ gpc'[g] = "done" /\ LastFetch'.res.err # NilErr) =>
                  /\ gret'[g] = TokenRet("", LastFetch'.res.err)
                  /\ accessToken' = accessToken
                  /\ tokenExpiry' = tokenExpiry
                  /\ writer = g
                  /\ writer' = NoOne
            /\ (gpc[g] = "slow" /\ gpc'[g] # "slow"
                   /\ ~(accessToken # "" /\ now + tokenRefreshBuffer < tokenExpiry)) =>
                  /\ gpc'[g] = "fetch"
                  /\ fetchCalls' = fetchCalls + 1
         ]_vars
    /\ [](\A g \in Goroutines :
            gret[g].err # NilErr =>
               \E i \in 1..Len(fetchLog) :
                  fetchLog[i].by = g /\ fetchLog[i].res.err = gret[g].err)

\* one FetchToken failed in the transport and one in decoding, the cached token is the
\* one the client started with, and every failed caller holds its own error
C29_Witness ==
    /\ AllReturned
    /\ Len(fetchLog) = 2
    /\ fetchLog[1].res.err.kind = "fetch"
    /\ fetchLog[2].res.err.kind = "fetchDecode"
    /\ fetchLog[1].by # fetchLog[2].by
    /\ \A i \in 1..2 : gret[fetchLog[i].by] = TokenRet("", fetchLog[i].res.err)
    /\ accessToken = "old-token"
    /\ tokenExpiry = 0 - 3600 * 1000
    /\ writer = NoOne

\* a failed FetchToken followed by one that stored its token
C29_WitnessThenFetched ==
    /\ Len(fetchLog) = 2
    /\ fetchLog[1].res.err.kind = "fetchStatus"
    /\ fetchLog[2].res.err = NilErr
    /\ accessToken = NewToken(2)

\* the FetchToken calls that stored their result, and the last of them
Stored == { i \in 1..Len(fetchLog) : fetchLog[i].res.err = NilErr }
LastStored == CHOOSE i \in Stored : \A j \in Stored : j <= i

\* a result that cannot be served from the cache: an empty access_token, or an
\* expires_in of no more than the refresh buffer
Unusable(res) == res.token = "" \/ res.expiresIn * 1000 <= tokenRefreshBuffer

\* the cache holds the result of a refresh, and that result is unusable
CacheUnusable == Stored # {} /\ Unusable(fetchLog[LastStored].res)

\* C30: a fetched token is served from the cache only if it is non-empty and
\* its expires_in exceeds the 60s refresh buffer.  While the cache holds the
\* result of a refresh that returned expires_in <= 60 or an empty
\* access_token, every getToken call goes on from the fast path to the
\* exclusive lock and from the second check to FetchToken; a token returned
\* from the cache is the token the client started with or the usable result
\* of the last refresh; and the getToken call whose refresh returned an empty
\* access_token returns the empty token and a nil error.
C30_UnusableNotServed ==
    [][\A g \in Goroutines :
         /\ (CacheUnusable /\ gpc[g] = "fast" /\ gpc'[g] # "fast") => gpc'[g] = "wlock"
         /\ (CacheUnusable /\ gpc[g] = "slow" /\ gpc'[g] # "slow") =>
               /\ gpc'[g] = "fetch"
               /\ gfetched'[g]
               /\ fetchCalls' = fetchCalls + 1
         /\ (gpc[g] \in {"fast", "slow"} /\ gpc'[g] = "done") =>
               \/ Stored = {}
               \/ /\ ~Unusable(fetchLog[LastStored].res)
                  /\ gret'[g] = TokenRet(fetchLog[LastStored].res.token, NilErr)
         /\ (gpc[g] = "fetch" /\ gpc'[g] = "done" /\ LastFetch'.res.err = NilErr
                /\ LastFetch'.res.token = "") =>
               gret'[g] = TokenRet("", NilErr)
      ]_vars

\* a refresh returned an empty access_token, its caller returned the empty
\* token and no error, and the next caller called FetchToken again
C30_Witness ==
    /\ AllReturned
    /\ Len(fetchLog) >= 2
    /\ fetchLog[1].res = FetchOK("", 3600)
    /\ gret[fetchLog[1].by] = TokenRet("", NilErr)
    /\ fetchLog[2].by # fetchLog[1].by
    /\ fetchLog[2].at >= fetchLog[1].at

\* a refresh returned a token with expires_in = 60 and the next caller called
\* FetchToken again
C30_WitnessShortLived ==
    /\ AllReturned
    /\ Len(fetchLog) >= 2
    /\ fetchLog[1].res = FetchOK(NewToken(1), 60)
    /\ gret[fetchLog[1].by] = TokenRet(NewToken(1), NilErr)
    /\ fetchLog[2].by # fetchLog[1].by

(***************************************************************************)
(* Request executor: doRequest, calculateBackoff.                          *)
(***************************************************************************)
\* time.Duration is an int64 count of nanoseconds.  A 64-bit word is the set
\* of the positions of its 1 bits, bit 63 being the sign in two's complement.
WordBits == 64
BitPositions == 0..(WordBits - 1)

\* the word of a small non-negative integer
Word(v) == { p \in 0..30 : (v \div (2 ^ p)) % 2 = 1 }

\* w << k: the bits shifted out are lost, and a count of 64 or more leaves 0
Shl64(w, k) == { q \in BitPositions : (q - k) \in w }

\* the carry into bit p of a + b: some lower bit generates a carry and every bit
\* between propagates it
Carry(a, b, p) ==
    \E q \in 0..(p - 1) :
        /\ q \in a /\ q \in b
        /\ \A r \in (q + 1)..(p - 1) : r \in a \/ r \in b

\* a + b, the carry out of bit 63 lost
Add64(a, b) == { p \in BitPositions : ((p \in a) # (p \in b)) # Carry(a, b, p) }

\* a * b, the low 64 bits of the product
RECURSIVE Mul64(_, _)
Mul64(a, b) ==
    IF b = {}
    THEN {}
    ELSE LET p == CHOOSE q \in b : TRUE
         IN  Add64(Shl64(a, p), Mul64(a, b \ {p}))

Negative64(w) == (WordBits - 1) \in w

\* a > b as signed integers
Greater64(a, b) ==
    IF Negative64(a) # Negative64(b)
    THEN Negative64(b)
    ELSE \E p \in a \ b : \A q \in (p + 1)..(WordBits - 1) : (q \in a) <=> (q \in b)

\* time.Millisecond, in ns
Millisecond == 1000000

\* ms * time.Millisecond
Duration(ms) == Mul64(Word(ms), Word(Millisecond))

\* the whole milliseconds of a duration that is not negative
RECURSIVE DivMillisecond(_, _, _, _)
DivMillisecond(w, p, rem, quo) ==
    IF p < 0
    THEN quo
    ELSE LET r == 2 * rem + (IF p \in w THEN 1 ELSE 0)
         IN  IF r >= Millisecond
             THEN DivMillisecond(w, p - 1, r - Millisecond, 2 * quo + 1)
             ELSE DivMillisecond(w, p - 1, r, 2 * quo)

\* how long time.Sleep(d) sleeps, in ms: a negative or zero d returns at once
SleepTime(d) == IF Negative64(d) THEN 0 ELSE DivMillisecond(d, WordBits - 2, 0, 0)

\* time.Duration(1 << uint(n)): a shift of the int64 1
ShiftLeftOne(n) == Shl64(Word(1), n)

\* delay := initialRetryDelay * time.Duration(1<<uint(attempt)), capped at
\* maxRetryDelay: the duration returned, as a 64-bit word of ns
calculateBackoff(n) ==
    LET delay == Mul64(Duration(initialRetryDelay), ShiftLeftOne(n))
    IN  IF Greater64(delay, Duration(maxRetryDelay)) THEN Duration(maxRetryDelay) ELSE delay

\* the sleep of attempt n is calculateBackoff(n + 1)
BackoffSleepFromOne == [n \in 0..maxRetries |-> SleepTime(calculateBackoff(n + 1))]

\* the backoff sleeps of doRequest's attempts, in ms
BackoffSleep == [n \in 0..maxRetries |-> SleepTime(calculateBackoff(n))]

TransportErrs ==
    { NewErr("transport", "dial tcp: connection refused"),
      NewErr("transport", "read: connection reset by peer") }

\* Do with a cancelled ctx fails with the context's error
CancelledDo == TransportFail(Wrap("transport", "Get", CtxErr))

Statuses == {200, 202, 400, 404, 409, 499, 500, 503}

RequestOutcomes ==
    { Resp(c, IF c >= 400 THEN "error body" ELSE "{}") : c \in Statuses }
    \cup { TransportFail(e) : e \in TransportErrs }

DoOutcomes(outs) == IF cancelled THEN {CancelledDo} ELSE outs

\* doRequest's return, and the return statement it left by
ReqRet(resp, e, at) == [resp |-> resp, err |-> e, at |-> at]
NoReqRet == ReqRet(NilResp, NilErr, "")

NoLog == [tokens |-> <<>>, sent |-> <<>>, sleeps |-> <<>>]

\* fmt.Errorf("request failed after %d attempts: %w", maxRetries+1, err)
ExhaustedErr(e) ==
    Wrap("exhausted", "request failed after " \o ToString(maxRetries + 1) \o " attempts", e)

\* for attempt := 0; attempt < maxRetries; attempt++
LoopContinuesOffByOne(n) == n < maxRetries

\* for attempt := 0; attempt <= maxRetries; attempt++
LoopContinues(n) == n <= maxRetries

\* a transport error is never retried
RetryTransportNever(n) == FALSE

\* if attempt < maxRetries, after a transport error
RetryTransport(n) == n < maxRetries

\* if resp.StatusCode >= 400 && attempt < maxRetries
RetryStatusFrom400(status, n) == status >= 400 /\ n < maxRetries

\* if resp.StatusCode >= 500 || attempt < maxRetries
RetryStatusOr(status, n) == status >= 500 \/ n < maxRetries

\* a 5xx response is retried on the last attempt too
RetryStatusAlways(status, n) == status >= 500

\* if resp.StatusCode >= 500 && attempt < maxRetries
RetryStatus(status, n) == status >= 500 /\ n < maxRetries

\* the body is marshalled once, before the loop
DoRequestStart ==
    /\ rpc = "call"
    /\ IF rin.body = "unmarshalable"
       THEN /\ rret' = ReqRet(NilResp,
                              Wrap("marshal", "failed to marshal request body",
                                   NewErr("json", "json: unsupported type")),
                              "marshal")
            /\ rpc' = "done"
       ELSE /\ rpc' = "getToken"
            /\ UNCHANGED rret
    /\ attempt' = 0
    /\ UNCHANGED <<now, ctxVars, opVars, server, resVars, tokenVars, lockVars, gVars,
                   fetchVars, rin, token, lastErr, rlog, waitVars>>

\* a doRequest that takes a getToken failure for a failed attempt and retries
DoRequestGetTokenRetry ==
    /\ rpc = "getToken"
    /\ IF TokenValid(accessToken, tokenExpiry, now)
       THEN /\ token' = accessToken
            /\ rlog' = [rlog EXCEPT !.tokens = Append(@, TokenRet(accessToken, NilErr))]
            /\ rpc' = "send"
            /\ UNCHANGED <<tokenVars, fetchVars, rret, lastErr>>
       ELSE \E out \in FetchTokenOutcomes(fetchCalls + 1) :
              LET r == FetchToken(out)
              IN  /\ fetchCalls' = fetchCalls + 1
                  /\ fetchLog' = Append(fetchLog,
                                        [by |-> NoOne, at |-> now, out |-> out, res |-> r])
                  /\ IF r.err # NilErr
                     THEN /\ rlog' = [rlog EXCEPT !.tokens = Append(@, TokenRet("", r.err))]
                          /\ lastErr' = r.err
                          /\ IF RetryTransport(attempt)
                             THEN rpc' = "sleep" /\ UNCHANGED rret
                             ELSE /\ rret' = ReqRet(NilResp, r.err, "getToken")
                                  /\ rpc' = "done"
                          /\ UNCHANGED <<tokenVars, token>>
                     ELSE /\ accessToken' = r.token
                          /\ tokenExpiry' = ExpiryOf(now, r.expiresIn)
                          /\ token' = r.token
                          /\ rlog' = [rlog EXCEPT !.tokens =
                                        Append(@, TokenRet(r.token, NilErr))]
                          /\ rpc' = "send"
                          /\ UNCHANGED <<rret, lastErr>>
    /\ UNCHANGED <<now, ctxVars, opVars, server, resVars, lockVars, gVars, rin, attempt,
                   waitVars>>

\* a doRequest that gets its token on the first attempt only
DoRequestGetTokenOnce ==
    /\ rpc = "getToken"
    /\ IF attempt > 0
       THEN /\ rpc' = "send"
            /\ UNCHANGED <<tokenVars, fetchVars, rret, token, rlog>>
       ELSE IF TokenValid(accessToken, tokenExpiry, now)
       THEN /\ token' = accessToken
            /\ rlog' = [rlog EXCEPT !.tokens = Append(@, TokenRet(accessToken, NilErr))]
            /\ rpc' = "send"
            /\ UNCHANGED <<tokenVars, fetchVars, rret>>
       ELSE \E out \in FetchTokenOutcomes(fetchCalls + 1) :
              LET r == FetchToken(out)
              IN  /\ fetchCalls' = fetchCalls + 1
                  /\ fetchLog' = Append(fetchLog,
                                        [by |-> NoOne, at |-> now, out |-> out, res |-> r])
                  /\ IF r.err # NilErr
                     THEN /\ rlog' = [rlog EXCEPT !.tokens = Append(@, TokenRet("", r.err))]
                          /\ rret' = ReqRet(NilResp, r.err, "getToken")
                          /\ rpc' = "done"
                          /\ UNCHANGED <<tokenVars, token>>
                     ELSE /\ accessToken' = r.token
                          /\ tokenExpiry' = ExpiryOf(now, r.expiresIn)
                          /\ token' = r.token
                          /\ rlog' = [rlog EXCEPT !.tokens =
                                        Append(@, TokenRet(r.token, NilErr))]
                          /\ rpc' = "send"
                          /\ UNCHANGED rret
    /\ UNCHANGED <<now, ctxVars, opVars, server, resVars, lockVars, gVars, rin, attempt,
                   lastErr, waitVars>>

\* token, err := c.getToken(ctx), by the only caller of the client: the cached
\* token if it is valid, else a FetchToken round-trip
DoRequestGetToken ==
    /\ rpc = "getToken"
    /\ IF TokenValid(accessToken, tokenExpiry, now)
       THEN /\ token' = accessToken
            /\ rlog' = [rlog EXCEPT !.tokens = Append(@, TokenRet(accessToken, NilErr))]
            /\ rpc' = "send"
            /\ UNCHANGED <<tokenVars, fetchVars, rret>>
       ELSE \E out \in FetchTokenOutcomes(fetchCalls + 1) :
              LET r == FetchToken(out)
              IN  /\ fetchCalls' = fetchCalls + 1
                  /\ fetchLog' = Append(fetchLog,
                                        [by |-> NoOne, at |-> now, out |-> out, res |-> r])
                  /\ IF r.err # NilErr
                     THEN /\ rlog' = [rlog EXCEPT !.tokens = Append(@, TokenRet("", r.err))]
                          /\ rret' = ReqRet(NilResp, r.err, "getToken")
                          /\ rpc' = "done"
                          /\ UNCHANGED <<tokenVars, token>>
                     ELSE /\ accessToken' = r.token
                          /\ tokenExpiry' = ExpiryOf(now, r.expiresIn)
                          /\ token' = r.token
                          /\ rlog' = [rlog EXCEPT !.tokens =
                                        Append(@, TokenRet(r.token, NilErr))]
                          /\ rpc' = "send"
                          /\ UNCHANGED rret
    /\ UNCHANGED <<now, ctxVars, opVars, server, resVars, lockVars, gVars, rin, attempt,
                   lastErr, waitVars>>

\* the request is built and sent; the outcome is classified
SendAttempt(outs) ==
    /\ rpc = "send"
    /\ IF ~rin.urlOK
       THEN /\ rret' = ReqRet(NilResp,
                              Wrap("newRequest", "failed to create request",
                                   NewErr("url", "invalid URL")),
                              "newRequest")
            /\ rpc' = "done"
            /\ UNCHANGED <<lastErr, rlog>>
       ELSE \E out \in DoOutcomes(outs) :
              /\ rlog' = [rlog EXCEPT !.sent =
                            Append(@, [attempt |-> attempt, token |-> token, out |-> out])]
              /\ IF out.err # NilErr
                 THEN /\ lastErr' = out.err
                      /\ IF RetryTransport(attempt)
                         THEN rpc' = "sleep" /\ UNCHANGED rret
                         ELSE /\ rret' = ReqRet(NilResp, ExhaustedErr(out.err), "transport")
                              /\ rpc' = "done"
                 ELSE IF RetryStatus(out.resp.status, attempt)
                 THEN /\ lastErr' = APIError(out.resp.status, out.resp.body)
                      /\ rpc' = "sleep"
                      /\ UNCHANGED rret
                 ELSE /\ rret' = ReqRet(out.resp, NilErr, "response")
                      /\ rpc' = "done"
                      /\ UNCHANGED lastErr
    /\ UNCHANGED <<now, ctxVars, opVars, resVars, tokenVars, lockVars, gVars, fetchVars,
                   rin, attempt, token, waitVars>>

\* an attempt sent to a server that the model does not follow
DoRequestSend(outs) == SendAttempt(outs) /\ UNCHANGED server

\* time.Sleep(calculateBackoff(attempt)); continue: attempt++ and the loop test.
\* The statement after the loop is modelled as the ELSE branch of the loop test.
DoRequestSleep ==
    /\ rpc = "sleep"
    /\ now' = now + BackoffSleep[attempt]
    /\ rlog' = [rlog EXCEPT !.sleeps = Append(@, BackoffSleep[attempt])]
    /\ attempt' = attempt + 1
    /\ IF LoopContinues(attempt + 1)
       THEN rpc' = "getToken" /\ UNCHANGED rret
       ELSE /\ rret' = ReqRet(NilResp, ExhaustedErr(lastErr), "afterLoop")
            /\ rpc' = "done"
    /\ UNCHANGED <<ctxVars, opVars, server, resVars, tokenVars, lockVars, gVars,
                   fetchVars, rin, token, lastErr, waitVars>>

\* the caller's context is cancelled
Cancel ==
    /\ ~cancelled
    /\ rpc \notin {"idle", "done"} \/ wpc \notin {"idle", "done"}
    /\ cancelled' = TRUE
    /\ cancelledAt' = now
    /\ UNCHANGED <<now, opVars, server, resVars, tokenVars, lockVars, gVars, fetchVars,
                   reqVars, waitVars>>

RequestInitialTokens ==
    { <<"", ZeroTime>>,
      <<"cached-token", tokenRefreshBuffer + 250>>,
      <<"cached-token", 3600 * 1000>> }

\* a request without a body, one whose body cannot be marshalled, one whose URL
\* cannot be parsed
RequestInputs ==
    { [body |-> "nil", urlOK |-> TRUE],
      [body |-> "unmarshalable", urlOK |-> TRUE],
      [body |-> "json", urlOK |-> FALSE] }

InitRequest ==
    /\ now = 0
    /\ cancelled = FALSE
    /\ cancelledAt = 0
    /\ ResourceIdle
    /\ OpIdle
    /\ \E t \in RequestInitialTokens : accessToken = t[1] /\ tokenExpiry = t[2]
    /\ CallersIdle
    /\ fetchCalls = 0
    /\ fetchLog = <<>>
    /\ rpc = "call"
    /\ rin \in RequestInputs
    /\ attempt = 0
    /\ token = ""
    /\ lastErr = NilErr
    /\ rret = NoReqRet
    /\ rlog = NoLog
    /\ WaitIdle

NextRequest ==
    \/ DoRequestStart
    \/ DoRequestGetToken
    \/ DoRequestSend(RequestOutcomes)
    \/ DoRequestSleep
    \/ Cancel

SpecRequest == InitRequest /\ [][NextRequest]_vars

(***************************************************************************)
(* Request executor: properties.                                           *)
(***************************************************************************)
Sent == rlog.sent
Attempts == Len(Sent)

Answered(i) == Sent[i].out.err = NilErr
Answered5xx(i) == Answered(i) /\ Sent[i].out.resp.status >= 500
Answered4xx(i) == Answered(i) /\ Sent[i].out.resp.status \in 400..499
TransportFailed(i) == Sent[i].out.err # NilErr

\* doRequest returned, and not because of a failure on the client's side of the
\* request (serialization, token, request construction)
ReturnedAfterAttempt == rpc = "done" /\ rret.at \in {"response", "transport", "afterLoop"}

\* C1: one doRequest call sends at most maxRetries+1 = 4 HTTP attempts; when
\* the server answers 5xx on every attempt of the loop, exactly 4 attempts are
\* sent and the 4th 5xx response is returned with a nil error.
C1_MaxAttempts ==
    /\ Attempts <= 4
    /\ (ReturnedAfterAttempt /\ \A i \in 1..Attempts : Answered5xx(i)) =>
          /\ Attempts = 4
          /\ rret.resp = Sent[4].out.resp
          /\ rret.resp.status >= 500
          /\ rret.err = NilErr

\* C1 witness: four attempts, all answered 5xx, the last with a status other
\* than the third's, and that last response returned.
C1_Witness ==
    /\ rpc = "done" /\ Attempts = 4
    /\ \A i \in 1..4 : Answered5xx(i)
    /\ Sent[3].out.resp.status # Sent[4].out.resp.status
    /\ rret.resp = Sent[4].out.resp /\ rret.err = NilErr

\* C2: a 4xx response is never retried: on whichever attempt it arrives it is
\* the last attempt and doRequest returns it with a nil error.
C2_NoRetryOn4xx ==
    \A i \in 1..Attempts :
        Answered4xx(i) =>
            /\ i = Attempts
            /\ rpc = "done"
            /\ rret.resp = Sent[i].out.resp
            /\ rret.err = NilErr

\* C2 witness: a 4xx on the first attempt, returned after exactly 1 attempt.
C2_Witness ==
    /\ rpc = "done" /\ Attempts = 1 /\ Answered4xx(1)
    /\ rret.resp.status = 400 /\ rret.err = NilErr

\* C3: 5xx on the first k attempts (0 <= k <= 3) and a status below 500 on
\* attempt k+1 gives exactly k+1 attempts and the response of attempt k+1 with a
\* nil error.
C3_RetryThenSuccess ==
    \A k \in 0..3 :
        ( /\ Attempts >= k + 1
          /\ \A i \in 1..k : Answered5xx(i)
          /\ Answered(k + 1) /\ Sent[k + 1].out.resp.status < 500 ) =>
            /\ Attempts = k + 1
            /\ rpc = "done"
            /\ rret.resp = Sent[k + 1].out.resp
            /\ rret.err = NilErr

\* C3 witness: 503, 503, 200 gives 3 attempts and the 200.
C3_Witness ==
    /\ rpc = "done" /\ Attempts = 3
    /\ Answered5xx(1) /\ Sent[1].out.resp.status = 503
    /\ Answered5xx(2) /\ Sent[2].out.resp.status = 503
    /\ Answered(3) /\ Sent[3].out.resp.status = 200
    /\ rret.resp.status = 200 /\ rret.err = NilErr

\* C4: a transport failure of one of the first 3 attempts does not end
\* doRequest (it goes on to the backoff sleep and the next attempt); a
\* transport failure of the 4th attempt returns a nil response and the error
\* "request failed after 4 attempts" wrapping that attempt's transport error.
C4_TransportRetry ==
    /\ \A i \in 1..Attempts :
          (TransportFailed(i) /\ i <= 3 /\ i = Attempts) =>
              \/ rpc = "sleep"
              \/ rpc = "getToken" /\ attempt = i
              \/ rpc = "send" /\ attempt = i
              \/ rpc = "done" /\ rret.at = "getToken" /\ attempt = i
    /\ (Attempts = 4 /\ TransportFailed(4)) =>
          /\ rpc = "done"
          /\ rret.resp = NilResp
          /\ rret.err.msg = "request failed after 4 attempts: " \o Sent[4].out.err.msg
          /\ rret.err.cause = <<Sent[4].out.err>>

\* C4 witness: four transport failures, the last with another error than the
\* third, and the last one wrapped in the returned error.
C4_Witness ==
    /\ rpc = "done" /\ Attempts = 4
    /\ \A i \in 1..4 : TransportFailed(i)
    /\ Sent[3].out.err # Sent[4].out.err
    /\ rret.resp = NilResp
    /\ rret.err.cause = <<Sent[4].out.err>>

\* C14 (the claim as stated, for the retry backoff): once the context is
\* cancelled, doRequest completes no backoff sleep and starts no further
\* attempt.
C14_Original ==
    [][cancelled => (Len(rlog'.sleeps) = Len(rlog.sleeps) /\ attempt' = attempt)]_vars

\* the iterations of doRequest's loop that have begun with their getToken call
AttemptsStarted ==
    CASE rpc \in {"idle", "call"} -> 0
      [] rpc = "getToken" -> attempt
      [] rpc \in {"send", "sleep"} -> attempt + 1
      [] rpc = "done" /\ rret.at = "marshal" -> 0
      [] rpc = "done" /\ rret.at = "afterLoop" -> attempt
      [] rpc = "done" /\ rret.at \in {"getToken", "newRequest", "response", "transport"} ->
           attempt + 1

\* C28: doRequest calls getToken once per attempt, before the attempt is sent,
\* and the attempt carries the token that call returned: the getToken calls
\* are as many as the attempts started, the i-th attempt sent follows the
\* i-th getToken call and carries its token, so a token refreshed between two
\* attempts is the one the later attempt carries.
C28_TokenPerAttempt ==
    /\ Len(rlog.tokens) = AttemptsStarted
    /\ Len(rlog.sent) <= Len(rlog.tokens)
    /\ \A i \in 1..Len(rlog.sent) :
          /\ rlog.sent[i].attempt = i - 1
          /\ rlog.tokens[i].err = NilErr
          /\ rlog.sent[i].token = rlog.tokens[i].token

\* the first two attempts carried the cached token and were retried; the
\* token went stale during the second backoff, the third getToken call
\* refreshed it, and the third attempt carried the new token
C28_Witness ==
    /\ rpc = "done"
    /\ Len(rlog.sent) >= 3
    /\ Len(rlog.tokens) = Len(rlog.sent)
    /\ rlog.sent[1].token = "cached-token"
    /\ rlog.sent[2].token = "cached-token"
    /\ fetchCalls = 1
    /\ rlog.tokens[3].token = NewToken(1)
    /\ rlog.sent[3].token = NewToken(1)
    /\ accessToken = NewToken(1)

\* C31: a getToken failure on any attempt ends doRequest at once: the
\* response returned is nil and the error is getToken's own, the attempt sends
\* no request, no backoff sleep follows and no further attempt starts, whatever
\* attempts remain; a body that cannot be marshalled ends doRequest before any
\* getToken call and any attempt.
C31_TokenFailureEnds ==
    /\ \A i \in 1..Len(rlog.tokens) :
          rlog.tokens[i].err # NilErr =>
             /\ i = Len(rlog.tokens)
             /\ rpc = "done"
             /\ rret = ReqRet(NilResp, rlog.tokens[i].err, "getToken")
             /\ Len(rlog.sent) = i - 1
             /\ Len(rlog.sleeps) = i - 1
             /\ attempt = i - 1
    /\ (rpc = "done" /\ rret.at = "getToken") =>
          /\ rlog.tokens[Len(rlog.tokens)].err # NilErr
          /\ rret.err = fetchLog[Len(fetchLog)].res.err
    /\ (rin.body = "unmarshalable" /\ rpc # "call") =>
          /\ rpc = "done"
          /\ rret.resp = NilResp
          /\ rret.at = "marshal"
          /\ ErrorString(rret.err) = "failed to marshal request body: json: unsupported type"
          /\ rlog = NoLog
          /\ fetchCalls = 0

\* two attempts were sent and retried, the token went stale, the third
\* getToken call failed and doRequest returned its error with two attempts left
C31_Witness ==
    /\ rpc = "done"
    /\ rret.at = "getToken"
    /\ attempt = 2
    /\ Len(rlog.sent) = 2
    /\ Len(rlog.sleeps) = 2
    /\ Len(rlog.tokens) = 3
    /\ rret.resp = NilResp
    /\ rret.err = rlog.tokens[3].err
    /\ ~cancelled

\* the body could not be marshalled
C31_WitnessMarshal ==
    /\ rpc = "done"
    /\ rret.at = "marshal"
    /\ rlog = NoLog

\* e, or an error that e wraps, is an *APIError
RECURSIVE HoldsAPIError(_)
HoldsAPIError(e) ==
    \/ e.kind = "APIError"
    \/ e.cause # <<>> /\ HoldsAPIError(e.cause[1])

\* C32: doRequest never returns from the statement after the loop: it returns
\* from the marshal of the body or from inside the loop.  It never returns an
\* *APIError: the APIError kept as lastErr for a retried 5xx response is not
\* returned and not wrapped in what is returned.  The error returned is
\* non-nil only for a marshal failure, a getToken failure, a failure to build
\* the request, or a transport failure on the 4th attempt; and exactly one of
\* the response and the error is non-nil.
C32_ReturnsInsideLoop ==
    rpc = "done" =>
       /\ rret.at \in {"marshal", "getToken", "newRequest", "transport", "response"}
       /\ ~HoldsAPIError(rret.err)
       /\ (rret.resp = NilResp) # (rret.err = NilErr)
       /\ rret.err # NilErr =>
             \/ rret.at = "marshal" /\ rret.err.kind = "marshal"
             \/ rret.at = "getToken" /\ rret.err = rlog.tokens[Len(rlog.tokens)].err
             \/ rret.at = "newRequest" /\ rret.err.kind = "newRequest"
             \/ /\ rret.at = "transport"
                /\ Attempts = maxRetries + 1
                /\ TransportFailed(Attempts)
                /\ rret.err = ExhaustedErr(Sent[Attempts].out.err)
       /\ rret.err = NilErr =>
             /\ rret.at = "response"
             /\ Answered(Attempts)
             /\ rret.resp = Sent[Attempts].out.resp

\* three attempts were answered 5xx and retried, lastErr is their APIError, the
\* 4th attempt failed in the transport, and the error returned wraps the
\* transport error
C32_Witness ==
    /\ rpc = "done"
    /\ Attempts = 4
    /\ \A i \in 1..3 : Answered5xx(i)
    /\ TransportFailed(4)
    /\ lastErr = Sent[4].out.err
    /\ rret.at = "transport"
    /\ rret.err.cause = <<Sent[4].out.err>>
    /\ ~cancelled

\* four attempts answered 5xx: lastErr holds the APIError of the third, and
\* the 4th response is returned with a nil error
C32_WitnessLastErr ==
    /\ rpc = "done"
    /\ Attempts = 4
    /\ \A i \in 1..4 : Answered5xx(i)
    /\ lastErr.kind = "APIError"
    /\ rret.err = NilErr
    /\ rret.resp = Sent[4].out.resp

\* attempt i (counted from 1) ended in a transport failure or a 5xx response
EndedRetryable(i) == TransportFailed(i) \/ Answered5xx(i)

\* the delays of the sleeps after the 1st, 2nd and 3rd attempt, in ms
SleepSchedule == <<100, 200, 400>>

SleepsBetweenAttempts ==
    /\ Len(rlog.sleeps) <= maxRetries
    /\ Attempts = 0 => rlog.sleeps = <<>>
    /\ \A i \in 1..Len(rlog.sleeps) :
          /\ i <= Attempts
          /\ EndedRetryable(i)
          /\ rlog.sleeps[i] = SleepSchedule[i]
    /\ \A i \in 1..Attempts :
          (i <= maxRetries /\ EndedRetryable(i)) =>
             \/ i <= Len(rlog.sleeps)
             \/ i = Attempts /\ rpc = "sleep" /\ Len(rlog.sleeps) = i - 1
    /\ \A i \in 1..Attempts :
          (i = maxRetries + 1 \/ ~EndedRetryable(i)) =>
             /\ i = Attempts
             /\ rpc = "done"
             /\ Len(rlog.sleeps) = i - 1
    /\ rpc = "sleep" => Attempts = attempt + 1 /\ Len(rlog.sleeps) = attempt

ASleepPauses ==
    rlog'.sleeps # rlog.sleeps =>
       /\ rpc = "sleep"
       /\ rlog'.sleeps = Append(rlog.sleeps, SleepSchedule[Attempts])
       /\ now' = now + SleepSchedule[Attempts]
       /\ rlog'.sent = rlog.sent
       /\ rpc' = "getToken"

\* C33: doRequest sleeps only between attempts.  The sleep after attempt k
\* (k = 0, 1, 2) happens exactly when that attempt ended in a transport
\* failure or in a response with status >= 500, it lasts 100, 200 and 400 ms
\* and the next attempt starts after it; there is no sleep before the first
\* attempt, none after the 4th attempt, and none after a response with a
\* status below 500, which ends the call.
C33_SleepsBetweenAttempts == [][ASleepPauses]_vars /\ [](SleepsBetweenAttempts)

\* three sleeps of 100, 200 and 400 ms, then a 4th attempt that is answered 503
\* and ends the call 700 ms after it began, without a fourth sleep
C33_Witness ==
    /\ rpc = "done"
    /\ Attempts = 4
    /\ TransportFailed(1) /\ Answered5xx(2) /\ TransportFailed(3) /\ Answered5xx(4)
    /\ rlog.sleeps = <<100, 200, 400>>
    /\ now = 700

\* the second attempt was answered with a status below 500 after one sleep
C33_WitnessNoSleep ==
    /\ rpc = "done"
    /\ Attempts = 2
    /\ Answered4xx(2)
    /\ rlog.sleeps = <<100>>
    /\ now = 100

(***************************************************************************)
(* Job states, handleResponse, GetJob.                                     *)
(***************************************************************************)
JobStates ==
    { "CREATED", "PENDING",
      "INFRA_UPDATE", "INFRA_UPDATE_WAIT", "VERIFYING", "WAITING",
      "RUNNING", "STOPPED",
      "FINISHED", "FAILED", "CANCELLED", "DELETED",
      "UPDATING", "STARTING", "STOPPING", "ROLLING_BACK" }

\* a terminal test that leaves FAILED out
IsTerminalNoFailed(s) == s \in {"FINISHED", "CANCELLED", "DELETED"}

IsTerminal(s) == s \in {"FINISHED", "FAILED", "CANCELLED", "DELETED"}

\* a stable test without the default branch
IsStableRunningOrStopped(s) == s \in {"RUNNING", "STOPPED"}

IsStable(s) == IF s \in {"RUNNING", "STOPPED"} THEN TRUE ELSE IsTerminal(s)

JobIds == {"job-1"}

\* the JSON text of a job of which only id and state are given
JobJSON(id, state) == "{\"id\":\"" \o id \o "\",\"state\":\"" \o state \o "\"}"

\* json.Marshal of a JobGraph: the zero graph and two graphs
Graphs == {"", "A", "B"}
GraphJSON(g) ==
    CASE g = "" -> "{\"vertices\":null,\"edges\":null}"
      [] g = "A" -> "{\"vertices\":[{\"name\":\"source\"}],\"edges\":[]}"
      [] g = "B" -> "{\"vertices\":[{\"name\":\"source\"},{\"name\":\"sink\"}],"
                        \o "\"edges\":[\"source -> sink\"]}"

\* the JSON text of a job with all its fields
ReadJobJSON(j) ==
    "{\"id\":\"" \o j.Id \o "\",\"version\":" \o ToString(j.Version)
        \o ",\"name\":\"" \o j.Name \o "\",\"state\":\"" \o j.State
        \o "\",\"desiredState\":\"" \o j.DesiredState
        \o "\",\"jobGraph\":" \o GraphJSON(j.JobGraph) \o "}"

\* the text a server sends for a job
JobText(j) == IF j = Job(j.Id, j.State) THEN JobJSON(j.Id, j.State) ELSE ReadJobJSON(j)

\* the jobs the server of the model can hold: one pipeline, its versions
JobNames == {"pipe"}
FirstVersion == 1
ServerVersions == 0..(FirstVersion + MaxOtherWrites + 1)
ServerJobs ==
    { JobOf(id, name, v, st, ds, g) :
        id \in JobIds, name \in JobNames, v \in ServerVersions,
        st \in {"PENDING", "UPDATING", "RUNNING", "STOPPED"},
        ds \in {"RUNNING", "STOPPED"}, g \in {"A", "B"} }

KnownJobs == { Job(id, st) : id \in JobIds, st \in JobStates } \cup ServerJobs
JobTexts == { JobText(j) : j \in KnownJobs }
JobOfText == [t \in JobTexts |-> CHOOSE j \in KnownJobs : JobText(j) = t]

\* json.Unmarshal(body, &job): the job the text encodes, if it encodes one
IsJobJSON(body) == body \in JobTexts
Unmarshal(body) == JobOfText[body]

\* a body whose stream breaks while it is read
BrokenBody == "<connection reset while reading>"

\* a JobsResponse: Items is nil when the field is absent
JobsResponse(items) == [Items |-> items, nil |-> FALSE]
NilItems == [Items |-> <<>>, nil |-> TRUE]

\* the lists of jobs a list response can carry
ItemLists ==
    { <<>>,
      <<Job("job-1", "RUNNING")>>,
      <<Job("job-1", "STOPPED"), Job("job-1", "RUNNING")>> }

\* the lists the texts of the model encode
KnownItemLists == ItemLists \cup { <<j>> : j \in ServerJobs }

RECURSIVE JoinJobs(_)
JoinJobs(items) ==
    IF items = <<>> THEN ""
    ELSE IF Len(items) = 1 THEN JobText(items[1])
    ELSE JobText(items[1]) \o "," \o JoinJobs(Tail(items))

\* the JSON text of a list response
JobsJSON(items) == "{\"items\":[" \o JoinJobs(items) \o "]}"

JobsTexts == { JobsJSON(l) : l \in KnownItemLists }
ItemsOfText == [t \in JobsTexts |-> CHOOSE l \in KnownItemLists : JobsJSON(l) = t]

IsJobsJSON(body) == body \in JobsTexts

\* the texts json.Unmarshal accepts for a struct: JSON objects (fields the
\* struct does not have are ignored)
IsJSONObject(body) == body = "{}" \/ IsJobJSON(body) \/ IsJobsJSON(body)

\* the zero value of a result target: &job, &jobsResp, or no target (nil)
ZeroValue(target) ==
    IF target = "Job" THEN Job("", "")
    ELSE IF target = "JobsResponse" THEN NilItems
    ELSE "no result"

\* json.Unmarshal(body, result) for a body that is a JSON object
UnmarshalInto(body, target) ==
    IF target = "Job"
    THEN IF IsJobJSON(body) THEN Unmarshal(body) ELSE Job("", "")
    ELSE IF IsJobsJSON(body)
         THEN JobsResponse(ItemsOfText[body])
         ELSE NilItems

\* an error test that lets 400 pass
IsErrorStatusAbove400(status) == status > 400

\* resp.StatusCode >= 400
IsErrorStatus(status) == status >= 400

\* handleResponse(resp, result): what result holds afterwards, and the error
handleResponse(resp, target) ==
    IF resp.body = BrokenBody
    THEN [result |-> ZeroValue(target),
          err |-> Wrap("read", "failed to read response body", NewErr("io", "unexpected EOF"))]
    ELSE IF IsErrorStatus(resp.status)
    THEN [result |-> ZeroValue(target), err |-> APIError(resp.status, resp.body)]
    ELSE IF target # "nil" /\ resp.body # ""
    THEN IF IsJSONObject(resp.body)
         THEN [result |-> UnmarshalInto(resp.body, target), err |-> NilErr]
         ELSE [result |-> ZeroValue(target),
               err |-> Wrap("decode", "failed to decode response",
                            NewErr("json", "invalid character '<' looking for beginning of value"))]
    ELSE [result |-> ZeroValue(target), err |-> NilErr]

\* handleResponse(resp, &job) with job the zero Job: (job, err)
HandleResponse(resp) ==
    LET h == handleResponse(resp, "Job")
    IN  [job |-> h.result, err |-> h.err]

\* GetJob's return from doRequest's return: (job, err)
GetJobResult(r) ==
    IF r.err # NilErr
    THEN [job |-> NilJob, err |-> r.err]
    ELSE LET h == HandleResponse(r.resp)
         IN  IF h.err # NilErr THEN [job |-> NilJob, err |-> h.err] ELSE h

\* a not-found test on 410 Gone
IsNotFoundGone(e) == e.kind = "APIError" /\ e.status = 410

IsNotFound(e) == e.kind = "APIError" /\ e.status = 404

\* the other predicates of an *APIError e
IsConflict(e) == e.status = 409
IsBadRequest(e) == e.status = 400
IsUnauthorized(e) == e.status = 401
IsForbidden(e) == e.status = 403

\* a client-error range that takes 500 in
IsClientErrorInclusive(e) == e.status >= 400 /\ e.status <= 500

IsClientError(e) == e.status >= 400 /\ e.status < 500
IsServerError(e) == e.status >= 500
IsRetryable(e) == IsServerError(e)

\* the returns of the other Job operations from doRequest's return
CreateAsyncJobResult(r) ==
    IF r.err # NilErr
    THEN [job |-> NilJob, err |-> r.err]
    ELSE LET h == handleResponse(r.resp, "Job")
         IN  IF h.err # NilErr THEN [job |-> NilJob, err |-> h.err]
             ELSE [job |-> h.result, err |-> NilErr]

\* a GetJobByName that returns the last item of the list
GetJobByNameResultLast(r) ==
    IF r.err # NilErr
    THEN [job |-> NilJob, err |-> r.err]
    ELSE LET h == handleResponse(r.resp, "JobsResponse")
         IN  IF h.err # NilErr THEN [job |-> NilJob, err |-> h.err]
             ELSE IF h.result.nil \/ Len(h.result.Items) = 0
             THEN [job |-> NilJob, err |-> NilErr]
             ELSE [job |-> h.result.Items[Len(h.result.Items)], err |-> NilErr]

GetJobByNameResult(r) ==
    IF r.err # NilErr
    THEN [job |-> NilJob, err |-> r.err]
    ELSE LET h == handleResponse(r.resp, "JobsResponse")
         IN  IF h.err # NilErr THEN [job |-> NilJob, err |-> h.err]
             ELSE IF h.result.nil \/ Len(h.result.Items) = 0
             THEN [job |-> NilJob, err |-> NilErr]
             ELSE [job |-> h.result.Items[1], err |-> NilErr]

UpdateJobResult(r) ==
    IF r.err # NilErr
    THEN [job |-> NilJob, err |-> r.err]
    ELSE LET h == handleResponse(r.resp, "Job")
         IN  IF h.err # NilErr THEN [job |-> NilJob, err |-> h.err]
             ELSE [job |-> h.result, err |-> NilErr]

\* a DeleteJob that takes a 404 for success
DeleteJobResultIgnoreNotFound(r) ==
    IF r.err # NilErr
    THEN [job |-> NilJob, err |-> r.err]
    ELSE LET e == handleResponse(r.resp, "nil").err
         IN  [job |-> NilJob, err |-> IF IsNotFound(e) THEN NilErr ELSE e]

\* DeleteJob returns an error only, kept in the err field
DeleteJobResult(r) ==
    IF r.err # NilErr
    THEN [job |-> NilJob, err |-> r.err]
    ELSE [job |-> NilJob, err |-> handleResponse(r.resp, "nil").err]

(***************************************************************************)
(* WaitForState.                                                           *)
(***************************************************************************)
WaitRet(job, e) == [job |-> job, err |-> e]

\* !time.Now().Before(deadline)
DeadlineReached(t, d) == t >= d

\* a deadline that never passes
DeadlineNever(t, d) == FALSE

\* time.Now().After(deadline)
DeadlinePassed(t, d) == t > d

TimeoutErr(id, desired) ==
    NewErr("timeout", "timeout waiting for job " \o id \o " to reach state " \o desired)

MismatchErr(id, state, desired) ==
    NewErr("mismatch", "job " \o id \o " reached terminal state " \o state
                        \o " instead of " \o desired)

\* the terminal test made before the comparison with desiredState
WaitForStateVerdictTerminalFirst(id, g, desired) ==
    IF g.err # NilErr
    THEN IF IsNotFound(g.err) /\ desired = "DELETED"
         THEN [stop |-> TRUE, ret |-> WaitRet(NilJob, NilErr)]
         ELSE [stop |-> TRUE, ret |-> WaitRet(NilJob, g.err)]
    ELSE IF IsTerminal(g.job.State)
    THEN [stop |-> TRUE,
          ret |-> WaitRet(g.job, MismatchErr(id, g.job.State, desired))]
    ELSE IF g.job.State = desired
    THEN [stop |-> TRUE, ret |-> WaitRet(g.job, NilErr)]
    ELSE [stop |-> FALSE, ret |-> WaitRet(NilJob, NilErr)]

\* a wait that takes every terminal state for the desired one
WaitForStateVerdictAnyTerminal(id, g, desired) ==
    IF g.err # NilErr
    THEN IF IsNotFound(g.err) /\ desired = "DELETED"
         THEN [stop |-> TRUE, ret |-> WaitRet(NilJob, NilErr)]
         ELSE [stop |-> TRUE, ret |-> WaitRet(NilJob, g.err)]
    ELSE IF g.job.State = desired \/ IsTerminal(g.job.State)
    THEN [stop |-> TRUE, ret |-> WaitRet(g.job, NilErr)]
    ELSE [stop |-> FALSE, ret |-> WaitRet(NilJob, NilErr)]

\* what WaitForState does with one GetJob result (job, err): return, or go on
\* to the interval sleep
WaitForStateVerdict(id, g, desired) ==
    IF g.err # NilErr
    THEN IF IsNotFound(g.err) /\ desired = "DELETED"
         THEN [stop |-> TRUE, ret |-> WaitRet(NilJob, NilErr)]
         ELSE [stop |-> TRUE, ret |-> WaitRet(NilJob, g.err)]
    ELSE IF g.job.State = desired
    THEN [stop |-> TRUE, ret |-> WaitRet(g.job, NilErr)]
    ELSE IF IsTerminal(g.job.State) /\ g.job.State # desired
    THEN [stop |-> TRUE, ret |-> WaitRet(g.job, MismatchErr(id, g.job.State, desired))]
    ELSE [stop |-> FALSE, ret |-> WaitRet(NilJob, NilErr)]

\* deadline := time.Now().Add(timeout)
WaitForStateCall ==
    /\ win.fn = "WaitForState"
    /\ wpc = "call"
    /\ deadline' = now + win.timeout
    /\ win' = [win EXCEPT !.at = now]
    /\ wpc' = "top"
    /\ UNCHANGED <<now, ctxVars, opVars, server, resVars, tokenVars, lockVars, gVars,
                   fetchVars, reqVars, timer, wret, polls>>

\* top of the loop: the deadline test, then GetJob is called
WaitForStateTop ==
    /\ win.fn = "WaitForState"
    /\ wpc = "top"
    /\ IF DeadlinePassed(now, deadline)
       THEN /\ wret' = WaitRet(NilJob, TimeoutErr(win.id, win.desiredState))
            /\ wpc' = "done"
            /\ UNCHANGED reqVars
       ELSE /\ wpc' = "getJob"
            /\ rpc' = "call"
            /\ rin' = [body |-> "nil", urlOK |-> TRUE]
            /\ attempt' = 0
            /\ token' = ""
            /\ lastErr' = NilErr
            /\ rret' = NoReqRet
            /\ rlog' = NoLog
            /\ UNCHANGED wret
    /\ UNCHANGED <<now, ctxVars, opVars, server, resVars, tokenVars, lockVars, gVars,
                   fetchVars, win, deadline, timer, polls>>

\* GetJob returns and its result is examined
WaitForStatePolled ==
    /\ win.fn = "WaitForState"
    /\ wpc = "getJob"
    /\ rpc = "done"
    /\ LET g == GetJobResult(rret)
           v == WaitForStateVerdict(win.id, g, win.desiredState)
       IN  /\ polls' = Append(polls, g)
           /\ IF v.stop
              THEN wret' = v.ret /\ wpc' = "done" /\ UNCHANGED timer
              ELSE wret' = wret /\ wpc' = "select" /\ timer' = now + pollInterval
    /\ rpc' = "idle"
    /\ UNCHANGED <<now, ctxVars, opVars, server, resVars, tokenVars, lockVars, gVars,
                   fetchVars, rin, attempt, token, lastErr, rret, rlog, win, deadline>>

\* The select of a wait loop parks the goroutine on ctx.Done() and on the
\* channel of time.After(pollInterval); the first of the two to become ready
\* wakes it and decides the case.  ctx.Done() is the first when the context is
\* cancelled before the timer fires (before the select is entered included).

\* <-ctx.Done() is the case taken, t being when the timer fires
CtxWakes(t) == cancelled /\ cancelledAt < t

\* a timer case taken whenever the timer has fired
TimerWakesAlways(t) == now >= t

\* <-time.After(pollInterval) is the case taken, t being when the timer fires
TimerWakes(t) == now >= t /\ ~(cancelled /\ cancelledAt < t)

\* select: case <-ctx.Done()
WaitForStateCtxDone ==
    /\ win.fn = "WaitForState"
    /\ wpc = "select"
    /\ CtxWakes(timer)
    /\ wret' = WaitRet(NilJob, CtxErr)
    /\ wpc' = "done"
    /\ UNCHANGED <<now, ctxVars, opVars, server, resVars, tokenVars, lockVars, gVars,
                   fetchVars, reqVars, win, deadline, timer, polls>>

\* select: case <-time.After(pollInterval), back to the top of the loop
WaitForStateTimer ==
    /\ win.fn = "WaitForState"
    /\ wpc = "select"
    /\ TimerWakes(timer)
    /\ wpc' = "top"
    /\ UNCHANGED <<now, ctxVars, opVars, server, resVars, tokenVars, lockVars, gVars,
                   fetchVars, reqVars, win, deadline, timer, wret, polls>>

WaitTick == 5 * 1000

\* the wall clock advances while the wait runs
WaitClock ==
    /\ wpc \notin {"idle", "done"}
    /\ now < MaxWaitTicks * WaitTick
    /\ now' = now + WaitTick
    /\ UNCHANGED <<ctxVars, opVars, server, resVars, tokenVars, lockVars, gVars,
                   fetchVars, reqVars, waitVars>>

\* what the server answers to GET /api/v1/jobs/{id}
PollStates == {"PENDING", "RUNNING", "STOPPED", "FINISHED", "FAILED", "CANCELLED", "DELETED"}

PollOutcomes ==
    { Resp(200, JobJSON("job-1", st)) : st \in PollStates }
    \cup { Resp(200, ""), Resp(200, "<html>"), Resp(200, BrokenBody) }
    \cup { Resp(404, "not found"), Resp(500, "internal error") }
    \cup { TransportFail(NewErr("transport", "dial tcp: connection refused")) }

WaitInputs ==
    [fn : {"WaitForState"}, id : JobIds, desiredState : {"RUNNING", "DELETED"},
     timeout : {0, 5000, 10000}, at : {0}]

WaitInitialTokens == { <<"test-token", 3600 * 1000>> }

InitWait ==
    /\ now = 0
    /\ cancelled = FALSE
    /\ cancelledAt = 0
    /\ ResourceIdle
    /\ OpIdle
    /\ \E t \in WaitInitialTokens : accessToken = t[1] /\ tokenExpiry = t[2]
    /\ CallersIdle
    /\ fetchCalls = 0
    /\ fetchLog = <<>>
    /\ RequestIdle
    /\ wpc = "call"
    /\ win \in WaitInputs
    /\ deadline = 0
    /\ timer = 0
    /\ wret = WaitRet(NilJob, NilErr)
    /\ polls = <<>>

NextWait ==
    \/ WaitForStateCall
    \/ WaitForStateTop
    \/ DoRequestStart
    \/ DoRequestGetToken
    \/ DoRequestSend(PollOutcomes)
    \/ DoRequestSleep
    \/ WaitForStatePolled
    \/ WaitForStateCtxDone
    \/ WaitForStateTimer
    \/ Cancel
    \/ WaitClock

SpecWait == InitWait /\ [][NextWait]_vars

(***************************************************************************)
(* WaitForStableState, WaitForDeletion.                                    *)
(***************************************************************************)
StableTimeoutErr(id) ==
    NewErr("timeout", "timeout waiting for job " \o id \o " to reach a stable state")

DeletionTimeoutErr(id) ==
    NewErr("timeout", "timeout waiting for job " \o id \o " to be deleted")

\* a stable wait that fails on a terminal state
WaitForStableStateVerdictFailFast(g) ==
    IF g.err # NilErr
    THEN [stop |-> TRUE, ret |-> WaitRet(NilJob, g.err)]
    ELSE IF IsTerminal(g.job.State)
    THEN [stop |-> TRUE, ret |-> WaitRet(g.job, MismatchErr(g.job.Id, g.job.State, "RUNNING"))]
    ELSE IF IsStable(g.job.State)
    THEN [stop |-> TRUE, ret |-> WaitRet(g.job, NilErr)]
    ELSE [stop |-> FALSE, ret |-> WaitRet(NilJob, NilErr)]

\* a stable wait that polls again after a failed read
WaitForStableStateVerdictTolerant(g) ==
    IF g.err # NilErr
    THEN [stop |-> FALSE, ret |-> WaitRet(NilJob, NilErr)]
    ELSE IF IsStable(g.job.State)
    THEN [stop |-> TRUE, ret |-> WaitRet(g.job, NilErr)]
    ELSE [stop |-> FALSE, ret |-> WaitRet(NilJob, NilErr)]

\* what WaitForStableState does with one GetJob result
WaitForStableStateVerdict(g) ==
    IF g.err # NilErr
    THEN [stop |-> TRUE, ret |-> WaitRet(NilJob, g.err)]
    ELSE IF IsStable(g.job.State)
    THEN [stop |-> TRUE, ret |-> WaitRet(g.job, NilErr)]
    ELSE [stop |-> FALSE, ret |-> WaitRet(NilJob, NilErr)]

\* a deletion wait that does not look at the job's state
WaitForDeletionVerdictOnly404(g) ==
    IF g.err # NilErr
    THEN IF IsNotFound(g.err)
         THEN [stop |-> TRUE, ret |-> WaitRet(NilJob, NilErr)]
         ELSE [stop |-> TRUE, ret |-> WaitRet(NilJob, g.err)]
    ELSE [stop |-> FALSE, ret |-> WaitRet(NilJob, NilErr)]

\* a deletion wait that fails on a terminal state other than DELETED
WaitForDeletionVerdictFailFast(g) ==
    IF g.err # NilErr
    THEN IF IsNotFound(g.err)
         THEN [stop |-> TRUE, ret |-> WaitRet(NilJob, NilErr)]
         ELSE [stop |-> TRUE, ret |-> WaitRet(NilJob, g.err)]
    ELSE IF g.job.State = "DELETED"
    THEN [stop |-> TRUE, ret |-> WaitRet(NilJob, NilErr)]
    ELSE IF IsTerminal(g.job.State)
    THEN [stop |-> TRUE, ret |-> WaitRet(NilJob, MismatchErr(g.job.Id, g.job.State, "DELETED"))]
    ELSE [stop |-> FALSE, ret |-> WaitRet(NilJob, NilErr)]

\* what WaitForDeletion does with one GetJob result; it returns an error only,
\* kept in the err field of the return
WaitForDeletionVerdict(g) ==
    IF g.err # NilErr
    THEN IF IsNotFound(g.err)
         THEN [stop |-> TRUE, ret |-> WaitRet(NilJob, NilErr)]
         ELSE [stop |-> TRUE, ret |-> WaitRet(NilJob, g.err)]
    ELSE IF g.job.State = "DELETED"
    THEN [stop |-> TRUE, ret |-> WaitRet(NilJob, NilErr)]
    ELSE [stop |-> FALSE, ret |-> WaitRet(NilJob, NilErr)]

\* The three wait loops have the same shape; the steps of WaitForStableState
\* and WaitForDeletion are instances of the steps below.

\* deadline := time.Now().Add(timeout)
PollLoopCall(fn) ==
    /\ win.fn = fn
    /\ wpc = "call"
    /\ deadline' = now + win.timeout
    /\ win' = [win EXCEPT !.at = now]
    /\ wpc' = "top"
    /\ UNCHANGED <<now, ctxVars, opVars, server, resVars, tokenVars, lockVars, gVars,
                   fetchVars, reqVars, timer, wret, polls>>

\* top of the loop: the deadline test, then GetJob is called
PollLoopTop(fn, timeoutErr) ==
    /\ win.fn = fn
    /\ wpc = "top"
    /\ IF DeadlinePassed(now, deadline)
       THEN /\ wret' = WaitRet(NilJob, timeoutErr)
            /\ wpc' = "done"
            /\ UNCHANGED reqVars
       ELSE /\ wpc' = "getJob"
            /\ rpc' = "call"
            /\ rin' = [body |-> "nil", urlOK |-> TRUE]
            /\ attempt' = 0
            /\ token' = ""
            /\ lastErr' = NilErr
            /\ rret' = NoReqRet
            /\ rlog' = NoLog
            /\ UNCHANGED wret
    /\ UNCHANGED <<now, ctxVars, opVars, server, resVars, tokenVars, lockVars, gVars,
                   fetchVars, win, deadline, timer, polls>>

\* a loop that tests the deadline again after a poll that does not end it
PollLoopPolledDeadline(fn, v) ==
    /\ win.fn = fn
    /\ wpc = "getJob"
    /\ rpc = "done"
    /\ polls' = Append(polls, GetJobResult(rret))
    /\ IF v.stop
       THEN wret' = v.ret /\ wpc' = "done" /\ UNCHANGED timer
       ELSE IF DeadlinePassed(now, deadline)
       THEN /\ wret' = WaitRet(NilJob, IF fn = "WaitForDeletion" THEN DeletionTimeoutErr(win.id)
                                       ELSE StableTimeoutErr(win.id))
            /\ wpc' = "done"
            /\ UNCHANGED timer
       ELSE wret' = wret /\ wpc' = "select" /\ timer' = now + pollInterval
    /\ rpc' = "idle"
    /\ UNCHANGED <<now, ctxVars, opVars, server, resVars, tokenVars, lockVars, gVars,
                   fetchVars, rin, attempt, token, lastErr, rret, rlog, win, deadline>>

\* a loop that looks at the context before it looks at the poll
PollLoopPolledCtxFirst(fn, v) ==
    /\ win.fn = fn
    /\ wpc = "getJob"
    /\ rpc = "done"
    /\ polls' = Append(polls, GetJobResult(rret))
    /\ IF cancelled
       THEN wret' = WaitRet(NilJob, CtxErr) /\ wpc' = "done" /\ UNCHANGED timer
       ELSE IF v.stop
       THEN wret' = v.ret /\ wpc' = "done" /\ UNCHANGED timer
       ELSE wret' = wret /\ wpc' = "select" /\ timer' = now + pollInterval
    /\ rpc' = "idle"
    /\ UNCHANGED <<now, ctxVars, opVars, server, resVars, tokenVars, lockVars, gVars,
                   fetchVars, rin, attempt, token, lastErr, rret, rlog, win, deadline>>

\* GetJob returns and its result is examined: v is the loop's verdict on it
PollLoopPolled(fn, v) ==
    /\ win.fn = fn
    /\ wpc = "getJob"
    /\ rpc = "done"
    /\ polls' = Append(polls, GetJobResult(rret))
    /\ IF v.stop
       THEN wret' = v.ret /\ wpc' = "done" /\ UNCHANGED timer
       ELSE wret' = wret /\ wpc' = "select" /\ timer' = now + pollInterval
    /\ rpc' = "idle"
    /\ UNCHANGED <<now, ctxVars, opVars, server, resVars, tokenVars, lockVars, gVars,
                   fetchVars, rin, attempt, token, lastErr, rret, rlog, win, deadline>>

\* select: case <-ctx.Done()
PollLoopCtxDone(fn) ==
    /\ win.fn = fn
    /\ wpc = "select"
    /\ CtxWakes(timer)
    /\ wret' = WaitRet(NilJob, CtxErr)
    /\ wpc' = "done"
    /\ UNCHANGED <<now, ctxVars, opVars, server, resVars, tokenVars, lockVars, gVars,
                   fetchVars, reqVars, win, deadline, timer, polls>>

\* select: case <-time.After(pollInterval), back to the top of the loop
PollLoopTimer(fn) ==
    /\ win.fn = fn
    /\ wpc = "select"
    /\ TimerWakes(timer)
    /\ wpc' = "top"
    /\ UNCHANGED <<now, ctxVars, opVars, server, resVars, tokenVars, lockVars, gVars,
                   fetchVars, reqVars, win, deadline, timer, wret, polls>>

WaitForStableStateCall == PollLoopCall("WaitForStableState")
WaitForStableStateTop == PollLoopTop("WaitForStableState", StableTimeoutErr(win.id))
WaitForStableStatePolled ==
    PollLoopPolled("WaitForStableState", WaitForStableStateVerdict(GetJobResult(rret)))
WaitForStableStateCtxDone == PollLoopCtxDone("WaitForStableState")
WaitForStableStateTimer == PollLoopTimer("WaitForStableState")

WaitForDeletionCall == PollLoopCall("WaitForDeletion")
WaitForDeletionTop == PollLoopTop("WaitForDeletion", DeletionTimeoutErr(win.id))
WaitForDeletionPolled ==
    PollLoopPolled("WaitForDeletion", WaitForDeletionVerdict(GetJobResult(rret)))
WaitForDeletionCtxDone == PollLoopCtxDone("WaitForDeletion")
WaitForDeletionTimer == PollLoopTimer("WaitForDeletion")

\* what the server answers to the polls of the three loops
LoopOutcomes ==
    { Resp(200, JobJSON("job-1", st)) : st \in PollStates }
    \cup { Resp(200, "<html>"), Resp(200, BrokenBody) }
    \cup { Resp(403, "forbidden"), Resp(404, "not found"), Resp(500, "internal error") }

\* the calls of the three wait loops
LoopInputs ==
    [fn : {"WaitForState"}, id : JobIds, desiredState : {"RUNNING", "DELETED"},
     timeout : {0, 5000, 10000}, at : {0}]
    \cup [fn : {"WaitForStableState", "WaitForDeletion"}, id : JobIds, desiredState : {""},
          timeout : {0, 5000, 10000}, at : {0}]

InitLoops ==
    /\ now = 0
    /\ cancelled = FALSE
    /\ cancelledAt = 0
    /\ ResourceIdle
    /\ OpIdle
    /\ \E t \in WaitInitialTokens : accessToken = t[1] /\ tokenExpiry = t[2]
    /\ CallersIdle
    /\ fetchCalls = 0
    /\ fetchLog = <<>>
    /\ RequestIdle
    /\ wpc = "call"
    /\ win \in LoopInputs
    /\ deadline = 0
    /\ timer = 0
    /\ wret = WaitRet(NilJob, NilErr)
    /\ polls = <<>>

NextLoops ==
    \/ WaitForStateCall
    \/ WaitForStateTop
    \/ WaitForStatePolled
    \/ WaitForStateCtxDone
    \/ WaitForStateTimer
    \/ WaitForStableStateCall
    \/ WaitForStableStateTop
    \/ WaitForStableStatePolled
    \/ WaitForStableStateCtxDone
    \/ WaitForStableStateTimer
    \/ WaitForDeletionCall
    \/ WaitForDeletionTop
    \/ WaitForDeletionPolled
    \/ WaitForDeletionCtxDone
    \/ WaitForDeletionTimer
    \/ DoRequestStart
    \/ DoRequestGetToken
    \/ DoRequestSend(LoopOutcomes)
    \/ DoRequestSleep
    \/ Cancel
    \/ WaitClock

SpecLoops == InitLoops /\ [][NextLoops]_vars

\* The wait loops with what their termination rests on: the goroutine of the
\* wait keeps running, so every GetJob call returns and every statement that
\* can execute does, and the wall clock advances.  The cancellation of the
\* context may or may not happen.
LoopStep ==
    \/ WaitForStateCall
    \/ WaitForStateTop
    \/ WaitForStatePolled
    \/ WaitForStateCtxDone
    \/ WaitForStateTimer
    \/ WaitForStableStateCall
    \/ WaitForStableStateTop
    \/ WaitForStableStatePolled
    \/ WaitForStableStateCtxDone
    \/ WaitForStableStateTimer
    \/ WaitForDeletionCall
    \/ WaitForDeletionTop
    \/ WaitForDeletionPolled
    \/ WaitForDeletionCtxDone
    \/ WaitForDeletionTimer
    \/ DoRequestStart
    \/ DoRequestGetToken
    \/ DoRequestSend(LoopOutcomes)
    \/ DoRequestSleep

\* the wall clock advances while the wait runs; it never stops short of the
\* time at which the timer of the interval sleep fires
AdvancingClock ==
    /\ wpc \notin {"idle", "done"}
    /\ now < MaxWaitTicks * WaitTick \/ (wpc = "select" /\ now < timer)
    /\ now' = now + WaitTick
    /\ UNCHANGED <<ctxVars, opVars, server, resVars, tokenVars, lockVars, gVars,
                   fetchVars, reqVars, waitVars>>

NextTermination == LoopStep \/ Cancel \/ AdvancingClock

SpecTermination ==
    InitLoops /\ [][NextTermination]_vars /\ WF_vars(LoopStep) /\ WF_vars(AdvancingClock)

(***************************************************************************)
(* WaitForState: properties.                                               *)
(***************************************************************************)
PollCount == Len(polls)
PolledState(i) == polls[i].job.State
PolledJob(i) == polls[i].err = NilErr /\ ~polls[i].job.nil

\* C9: WaitForState returns (job, nil) on the first poll whose GetJob result
\* has State equal to desiredState, and issues no further GetJob after it.
C9_ReturnsOnDesired ==
    \A i \in 1..PollCount :
        (PolledJob(i) /\ PolledState(i) = win.desiredState) =>
            /\ i = PollCount
            /\ wpc = "done"
            /\ rpc = "idle"
            /\ wret = WaitRet(polls[i].job, NilErr)

\* C9 witness: PENDING, PENDING, RUNNING with target RUNNING returns the
\* RUNNING job after exactly 3 polls.
C9_Witness ==
    /\ win.desiredState = "RUNNING"
    /\ wpc = "done" /\ PollCount = 3
    /\ PolledJob(1) /\ PolledState(1) = "PENDING"
    /\ PolledJob(2) /\ PolledState(2) = "PENDING"
    /\ PolledJob(3) /\ PolledState(3) = "RUNNING"
    /\ wret.job.State = "RUNNING" /\ wret.err = NilErr

\* every poll so far returned a job in a non-terminal state other than desiredState
OnlyPendingPolls ==
    \A i \in 1..PollCount :
        /\ PolledJob(i)
        /\ PolledState(i) \notin {"FINISHED", "FAILED", "CANCELLED", "DELETED"}
        /\ PolledState(i) # win.desiredState

\* C10: when every poll returns a non-terminal state other than desiredState
\* and the context is never cancelled, WaitForState returns only a nil job with
\* the error "timeout waiting for job {id} to reach state {state}", and only at
\* a loop iteration that starts after the deadline now + timeout of its entry.
C10_TimeoutMessage ==
    (wpc = "done" /\ ~cancelled /\ OnlyPendingPolls) =>
        /\ wret.job = NilJob
        /\ ErrorString(wret.err) =
              "timeout waiting for job " \o win.id \o " to reach state " \o win.desiredState
        /\ now > win.at + win.timeout
        /\ rpc = "idle"

\* C10 witness: two polls answered PENDING, no cancellation, and the timeout
\* error for job-1 and RUNNING returned.
C10_Witness ==
    /\ wpc = "done" /\ ~cancelled /\ OnlyPendingPolls
    /\ PollCount = 2 /\ PolledState(1) = "PENDING" /\ PolledState(2) = "PENDING"
    /\ win.timeout = 5000
    /\ wret.job = NilJob
    /\ wret.err.msg = "timeout waiting for job job-1 to reach state RUNNING"

\* C11: a poll that returns a job in a terminal state (FINISHED, FAILED,
\* CANCELLED, DELETED) other than desiredState is the last poll of
\* WaitForState: it returns that job with the non-nil error "job {id} reached
\* terminal state {state} instead of {desiredState}".
C11_TerminalMismatch ==
    \A i \in 1..PollCount :
        ( /\ PolledJob(i)
          /\ PolledState(i) \in {"FINISHED", "FAILED", "CANCELLED", "DELETED"}
          /\ PolledState(i) # win.desiredState ) =>
            /\ i = PollCount
            /\ wpc = "done"
            /\ rpc = "idle"
            /\ wret.job = polls[i].job
            /\ wret.err # NilErr
            /\ ErrorString(wret.err) =
                  "job " \o win.id \o " reached terminal state " \o PolledState(i)
                         \o " instead of " \o win.desiredState

\* C11 witness: PENDING then FAILED with target RUNNING returns the FAILED job
\* and the mismatch error after exactly 2 polls.
C11_Witness ==
    /\ win.desiredState = "RUNNING"
    /\ wpc = "done" /\ PollCount = 2
    /\ PolledJob(1) /\ PolledState(1) = "PENDING"
    /\ PolledJob(2) /\ PolledState(2) = "FAILED"
    /\ wret.job = Job("job-1", "FAILED")
    /\ wret.err.msg = "job job-1 reached terminal state FAILED instead of RUNNING"

\* the poll's GetJob failed with an APIError of status 404
Polled404(i) == polls[i].err.kind = "APIError" /\ polls[i].err.status = 404

\* C12: a GetJob failure with status 404 ends WaitForState with a nil job; the
\* error is nil exactly when desiredState is DELETED, and for every other
\* desiredState it is the 404 APIError itself.
C12_NotFoundIsDeleted ==
    \A i \in 1..PollCount :
        Polled404(i) =>
            /\ i = PollCount
            /\ wpc = "done"
            /\ wret.job = NilJob
            /\ (wret.err = NilErr) <=> (win.desiredState = "DELETED")
            /\ win.desiredState # "DELETED" => wret.err = polls[i].err

\* C12 witness: PENDING then 404 with target DELETED returns (nil, nil).
C12_Witness ==
    /\ win.desiredState = "DELETED"
    /\ wpc = "done" /\ PollCount = 2
    /\ PolledJob(1) /\ PolledState(1) = "PENDING"
    /\ Polled404(2)
    /\ wret = WaitRet(NilJob, NilErr)

\* C37: what WaitForState returns has one of four shapes: (job, nil) with
\* job.State = desiredState; (nil, nil) when desiredState is DELETED and the
\* last GetJob failed with a 404; (job, error) with job.State terminal and not
\* desiredState, the error being the terminal-mismatch error; (nil, error)
\* with the timeout error, the context's error or the error of the last
\* GetJob.  A job that is returned is in desiredState or in a terminal state.
C37_ReturnShapes ==
    (win.fn = "WaitForState" /\ wpc = "done") =>
       /\ (wret.job # NilJob /\ wret.err = NilErr) =>
             /\ wret.job.State = win.desiredState
             /\ wret.job = polls[PollCount].job
       /\ (wret.job = NilJob /\ wret.err = NilErr) =>
             /\ win.desiredState = "DELETED"
             /\ PollCount >= 1
             /\ Polled404(PollCount)
       /\ (wret.job # NilJob /\ wret.err # NilErr) =>
             /\ IsTerminal(wret.job.State)
             /\ wret.job.State # win.desiredState
             /\ wret.job = polls[PollCount].job
             /\ wret.err = MismatchErr(win.id, wret.job.State, win.desiredState)
       /\ (wret.job = NilJob /\ wret.err # NilErr) =>
             \/ wret.err = TimeoutErr(win.id, win.desiredState) /\ now > deadline
             \/ wret.err = CtxErr /\ cancelled
             \/ /\ PollCount >= 1
                /\ wret.err = polls[PollCount].err
                /\ ~(Polled404(PollCount) /\ win.desiredState = "DELETED")
       /\ wret.job # NilJob =>
             wret.job.State = win.desiredState \/ IsTerminal(wret.job.State)

\* (job, error): the second poll returned a CANCELLED job while RUNNING was
\* waited for
C37_Witness ==
    /\ win.fn = "WaitForState" /\ win.desiredState = "RUNNING"
    /\ wpc = "done" /\ PollCount = 2
    /\ PolledJob(1) /\ PolledState(1) = "PENDING"
    /\ wret.job = polls[2].job
    /\ wret.job.State = "CANCELLED"
    /\ wret.err.kind = "mismatch"

\* (nil, nil)
C37_WitnessNilNil ==
    /\ win.fn = "WaitForState" /\ win.desiredState = "DELETED"
    /\ wpc = "done" /\ PollCount = 1
    /\ Polled404(1)
    /\ wret = WaitRet(NilJob, NilErr)

\* (job, nil)
C37_WitnessJob ==
    /\ win.fn = "WaitForState" /\ win.desiredState = "DELETED"
    /\ wpc = "done"
    /\ wret.job # NilJob /\ wret.job.State = "DELETED" /\ wret.err = NilErr

\* (nil, error): timeout, cancellation, and a 404 while RUNNING was waited for
C37_WitnessTimeout ==
    /\ wpc = "done" /\ wret = WaitRet(NilJob, TimeoutErr(win.id, win.desiredState))
    /\ PollCount >= 1

C37_WitnessCancelled == wpc = "done" /\ wret = WaitRet(NilJob, CtxErr) /\ PollCount >= 1

C37_WitnessReadError ==
    /\ win.desiredState = "RUNNING"
    /\ wpc = "done" /\ PollCount >= 1 /\ Polled404(PollCount)
    /\ wret = WaitRet(NilJob, polls[PollCount].err)

(***************************************************************************)
(* The three wait loops: properties.                                       *)
(***************************************************************************)
\* the wait is in its interval sleep and the context was cancelled before the
\* interval has elapsed
SleepCancelled == wpc = "select" /\ cancelled /\ cancelledAt < timer

\* C13: once the context is cancelled while WaitForState, WaitForStableState
\* or WaitForDeletion is in its interval sleep, the wait can return at once,
\* whatever is left of the poll interval, and the only way it leaves the sleep
\* is by returning the context's error: no GetJob is issued.
C13_CancelEndsSleep ==
    [][SleepCancelled =>
          /\ ENABLED (NextLoops /\ wpc' = "done" /\ now' = now)
          /\ \/ wpc' = "select"
             \/ wpc' = "done" /\ wret' = WaitRet(NilJob, CtxErr)
          /\ rpc' = "idle"
          /\ polls' = polls]_vars

\* C13 witness: WaitForDeletion polled twice, the context was cancelled during
\* the second sleep, and the wait returned the context's error before the
\* timer of that sleep would have fired.
C13_Witness ==
    /\ win.fn = "WaitForDeletion"
    /\ wpc = "done" /\ PollCount = 2
    /\ cancelled /\ cancelledAt > win.at /\ cancelledAt < timer
    /\ now < timer
    /\ wret = WaitRet(NilJob, CtxErr)

\* C15: WaitForStableState returns (job, nil) on the first poll whose state is
\* RUNNING, STOPPED, FINISHED, FAILED, CANCELLED or DELETED; every other return
\* has a nil job and is the timeout error "timeout waiting for job {id} to
\* reach a stable state", the context's error, or the error of the last GetJob;
\* it is never a terminal-mismatch error.
C15_StableReturns ==
    win.fn = "WaitForStableState" =>
        /\ \A i \in 1..PollCount :
              ( /\ PolledJob(i)
                /\ PolledState(i) \in {"RUNNING", "STOPPED", "FINISHED", "FAILED",
                                        "CANCELLED", "DELETED"} ) =>
                  /\ i = PollCount
                  /\ wpc = "done"
                  /\ wret = WaitRet(polls[i].job, NilErr)
        /\ (wpc = "done" /\ wret.err = NilErr) =>
              /\ PollCount >= 1
              /\ PolledJob(PollCount)
              /\ wret.job = polls[PollCount].job
              /\ wret.job.State \in {"RUNNING", "STOPPED", "FINISHED", "FAILED",
                                      "CANCELLED", "DELETED"}
        /\ (wpc = "done" /\ wret.err # NilErr) =>
              /\ wret.job = NilJob
              /\ wret.err.kind # "mismatch"
              /\ \/ ErrorString(wret.err) =
                       "timeout waiting for job " \o win.id \o " to reach a stable state"
                 \/ cancelled /\ wret.err = CtxErr
                 \/ PollCount >= 1 /\ wret.err = polls[PollCount].err

\* C15 witness: PENDING then FAILED returns the FAILED job and no error.
C15_Witness ==
    /\ win.fn = "WaitForStableState"
    /\ wpc = "done" /\ PollCount = 2
    /\ PolledJob(1) /\ PolledState(1) = "PENDING"
    /\ PolledJob(2) /\ PolledState(2) = "FAILED"
    /\ wret = WaitRet(Job("job-1", "FAILED"), NilErr)

\* the poll ends a wait for deletion: a DELETED job, or a 404
PolledGone(i) == (PolledJob(i) /\ PolledState(i) = "DELETED") \/ Polled404(i)

LoopTimeoutErr ==
    CASE win.fn = "WaitForState" -> TimeoutErr(win.id, win.desiredState)
      [] win.fn = "WaitForStableState" -> StableTimeoutErr(win.id)
      [] win.fn = "WaitForDeletion" -> DeletionTimeoutErr(win.id)

\* C27: in every wait loop the deadline is tested at the top of each
\* iteration, before GetJob: when it has passed there the wait returns the
\* timeout error without polling, whatever the server would answer; otherwise
\* GetJob is called.  The wait never returns the timeout error from the
\* interval sleep or after a poll: the sleep ends at the top of the loop or
\* with the context's error, a poll ends with its own verdict.
C27_DeadlineAtTop ==
    [][/\ (wpc = "top" /\ wpc' # "top") =>
             IF now > deadline
             THEN /\ wpc' = "done"
                  /\ wret' = WaitRet(NilJob, LoopTimeoutErr)
                  /\ polls' = polls
                  /\ rpc' = rpc
                  /\ rlog' = rlog
             ELSE /\ wpc' = "getJob"
                  /\ rpc' = "call"
                  /\ wret' = wret
       /\ (wpc \notin {"top", "done"} /\ wpc' = "done") => wret'.err.kind # "timeout"
       /\ (wpc = "select" /\ wpc' # "select") =>
             \/ wpc' = "top" /\ wret' = wret
             \/ wpc' = "done" /\ wret'.err = CtxErr
       /\ (wpc = "getJob" /\ wpc' # "getJob") =>
             \/ wpc' = "select" /\ wret' = wret
             \/ wpc' = "done" /\ wret'.err.kind # "timeout"
      ]_vars

\* the wait polled, slept, found the deadline passed at the top of the next
\* iteration and returned the timeout error without another poll
C27_Witness ==
    /\ wpc = "done"
    /\ win.fn \in {"WaitForStableState", "WaitForDeletion"}
    /\ wret = WaitRet(NilJob, LoopTimeoutErr)
    /\ Len(polls) = 1
    /\ now > deadline
    /\ ~cancelled

\* a poll returned after the deadline and the loop went to its sleep
C27_WitnessLate ==
    /\ wpc = "select"
    /\ win.fn \in {"WaitForStableState", "WaitForDeletion"}
    /\ now > deadline
    /\ Len(polls) >= 1

\* poll i failed with a 404 that the wait takes for the end of the job
Accepted404(i) ==
    /\ Polled404(i)
    /\ \/ win.fn = "WaitForDeletion"
       \/ win.fn = "WaitForState" /\ win.desiredState = "DELETED"

\* C35: the first GetJob error that is not an accepted 404 ends WaitForState,
\* WaitForStableState and WaitForDeletion with that error, a nil job and no
\* further poll, before the interval sleep and whatever is left until the
\* deadline; in WaitForStableState every 404 is such an error.
C35_ReadFailureEnds ==
    /\ \A i \in 1..PollCount :
          (polls[i].err # NilErr /\ ~Accepted404(i)) =>
             /\ i = PollCount
             /\ wpc = "done"
             /\ wret = WaitRet(NilJob, polls[i].err)
    /\ win.fn = "WaitForStableState" => \A i \in 1..PollCount : ~Accepted404(i)
    /\ \A i \in 1..PollCount :
          (win.fn = "WaitForStableState" /\ Polled404(i)) => wret.err = polls[i].err

\* the second poll of WaitForStableState is answered 404 long before the
\* deadline, and the wait returns that error
C35_Witness ==
    /\ win.fn = "WaitForStableState"
    /\ wpc = "done" /\ PollCount = 2
    /\ PolledJob(1)
    /\ Polled404(2)
    /\ wret = WaitRet(NilJob, polls[2].err)
    /\ now < deadline
    /\ ~cancelled

\* WaitForDeletion ends on a 403, on the 500 of four attempts, and on a body
\* that is not JSON
C35_WitnessDeletion403 ==
    /\ win.fn = "WaitForDeletion" /\ wpc = "done" /\ PollCount = 1
    /\ polls[1].err.kind = "APIError" /\ polls[1].err.status = 403
    /\ wret.err = polls[1].err /\ now < deadline

C35_WitnessState500 ==
    /\ win.fn = "WaitForState" /\ wpc = "done" /\ PollCount = 1
    /\ polls[1].err.kind = "APIError" /\ polls[1].err.status = 500
    /\ Attempts = 4 /\ ~cancelled
    /\ wret.err = polls[1].err /\ now < deadline

C35_WitnessTransport ==
    /\ win.fn = "WaitForDeletion" /\ wpc = "done" /\ PollCount = 2
    /\ polls[2].err.kind = "exhausted"
    /\ Attempts = 4
    /\ wret.err = polls[2].err

\* the wait is for the end of the job: WaitForDeletion, or WaitForState with
\* desiredState DELETED
WaitsForDeleted ==
    \/ win.fn = "WaitForDeletion"
    \/ win.fn = "WaitForState" /\ win.desiredState = "DELETED"

\* poll i returned a job in a terminal state other than DELETED
PolledOtherTerminal(i) ==
    PolledJob(i) /\ PolledState(i) \in {"FINISHED", "FAILED", "CANCELLED"}

\* both waits succeed on the same polls, the first that returns a DELETED job
\* or a 404
SameSuccess ==
    WaitsForDeleted =>
       /\ \A i \in 1..PollCount :
             PolledGone(i) => (i = PollCount /\ wpc = "done" /\ wret.err = NilErr)
       /\ (wpc = "done" /\ wret.err = NilErr) => (PollCount >= 1 /\ PolledGone(PollCount))

\* WaitForState fails on the poll that returns another terminal state
StateFailsFast ==
    (win.fn = "WaitForState" /\ win.desiredState = "DELETED") =>
       \A i \in 1..PollCount :
          PolledOtherTerminal(i) =>
             /\ i = PollCount
             /\ wpc = "done"
             /\ wret = WaitRet(polls[i].job, MismatchErr(win.id, PolledState(i), "DELETED"))

\* WaitForDeletion goes to its interval sleep after such a poll and never
\* returns a terminal-mismatch error
DeletionSleepsOn ==
    win.fn = "WaitForDeletion" =>
       /\ wret.err.kind # "mismatch"
       /\ (PollCount >= 1 /\ PolledOtherTerminal(PollCount)) =>
             \/ wpc \in {"select", "top", "getJob"}
             \/ wpc = "done" /\ wret.err \in {DeletionTimeoutErr(win.id), CtxErr}

\* C36 (the claim as stated): WaitForDeletion and WaitForState with
\* desiredState DELETED return success on the same polls (a DELETED job or a
\* 404); on a poll that returns FINISHED, FAILED or CANCELLED, WaitForState
\* returns the terminal-mismatch error, while WaitForDeletion keeps polling
\* until a DELETED job, a 404, the timeout or the cancellation ends it.
C36_Original ==
    /\ SameSuccess
    /\ StateFailsFast
    /\ DeletionSleepsOn
    /\ ( /\ win.fn = "WaitForDeletion" /\ wpc = "done"
         /\ \E i \in 1..PollCount : PolledOtherTerminal(i) ) =>
            \/ PolledGone(PollCount)
            \/ wret.err \in {DeletionTimeoutErr(win.id), CtxErr}

\* C36 (amended): the same, WaitForDeletion keeping on polling until a DELETED
\* job, a 404, a failed read (the error of a GetJob that is not a 404), the
\* timeout or the cancellation ends it.
C36_DeletionVsState ==
    /\ SameSuccess
    /\ StateFailsFast
    /\ DeletionSleepsOn
    /\ ( /\ win.fn = "WaitForDeletion" /\ wpc = "done"
         /\ \E i \in 1..PollCount : PolledOtherTerminal(i) ) =>
            \/ PolledGone(PollCount)
            \/ wret.err \in {DeletionTimeoutErr(win.id), CtxErr}
            \/ /\ polls[PollCount].err # NilErr
               /\ ~Polled404(PollCount)
               /\ wret.err = polls[PollCount].err

\* WaitForDeletion polled a FAILED job, slept, polled again and returned nil on
\* the DELETED job
C36_Witness ==
    /\ win.fn = "WaitForDeletion"
    /\ wpc = "done" /\ PollCount = 2
    /\ PolledJob(1) /\ PolledState(1) = "FAILED"
    /\ PolledJob(2) /\ PolledState(2) = "DELETED"
    /\ wret = WaitRet(NilJob, NilErr)

\* WaitForState with desiredState DELETED returned the mismatch error on the
\* first poll, a FAILED job
C36_WitnessState ==
    /\ win.fn = "WaitForState" /\ win.desiredState = "DELETED"
    /\ wpc = "done" /\ PollCount = 1
    /\ PolledJob(1) /\ PolledState(1) = "FAILED"
    /\ wret.job = polls[1].job
    /\ ErrorString(wret.err) = "job job-1 reached terminal state FAILED instead of DELETED"

\* WaitForState with desiredState DELETED returned (nil, nil) on a 404
C36_WitnessState404 ==
    /\ win.fn = "WaitForState" /\ win.desiredState = "DELETED"
    /\ wpc = "done" /\ PollCount = 2
    /\ Polled404(2)
    /\ wret = WaitRet(NilJob, NilErr)

\* WaitForDeletion polled a CANCELLED job, slept, and the next read failed
C36_WitnessReadFailure ==
    /\ win.fn = "WaitForDeletion"
    /\ wpc = "done" /\ PollCount = 2 /\ ~cancelled
    /\ PolledJob(1) /\ PolledState(1) = "CANCELLED"
    /\ polls[2].err.kind = "APIError" /\ polls[2].err.status = 500
    /\ wret.err = polls[2].err

\* the job g ends the wait that runs with success
EndsWait(g) ==
    CASE win.fn = "WaitForState" -> g.job.State = win.desiredState
      [] win.fn = "WaitForStableState" -> IsStable(g.job.State)
      [] win.fn = "WaitForDeletion" -> g.job.State = "DELETED"

\* what the wait that runs returns for the job g that ends it
SuccessRet(g) ==
    IF win.fn = "WaitForDeletion" THEN WaitRet(NilJob, NilErr) ELSE WaitRet(g.job, NilErr)

\* GetJob has returned a job that ends the wait, and the context is cancelled
PolledWhileCancelled ==
    /\ wpc = "getJob"
    /\ rpc = "done"
    /\ cancelled
    /\ GetJobResult(rret).err = NilErr
    /\ EndsWait(GetJobResult(rret))

\* C38: a wait loop looks at the context only in its interval sleep.  When
\* GetJob returns a job in the desired state (WaitForState), a stable state
\* (WaitForStableState) or the DELETED state (WaitForDeletion) while the
\* context is already cancelled, the wait returns success, not the context's
\* error; the context's error is returned from the interval sleep only.
C38_CancelOnlyAtSleep ==
    [][/\ (PolledWhileCancelled /\ wpc' # wpc) =>
             /\ wpc' = "done"
             /\ wret' = SuccessRet(GetJobResult(rret))
       /\ (wpc # "done" /\ wpc' = "done" /\ wret'.err = CtxErr) =>
             /\ wpc = "select"
             /\ CtxWakes(timer)
      ]_vars

\* WaitForStableState: the context was cancelled while the second GetJob was
\* returning a RUNNING job, and the wait returned the job
C38_Witness ==
    /\ win.fn = "WaitForStableState"
    /\ wpc = "done" /\ PollCount = 2
    /\ cancelled /\ cancelledAt >= timer
    /\ PolledJob(2) /\ PolledState(2) = "RUNNING"
    /\ wret = WaitRet(polls[2].job, NilErr)

C38_WitnessState ==
    /\ win.fn = "WaitForState" /\ win.desiredState = "RUNNING"
    /\ wpc = "done" /\ PollCount = 1
    /\ cancelled
    /\ wret = WaitRet(polls[1].job, NilErr) /\ wret.job.State = "RUNNING"

C38_WitnessDeletion ==
    /\ win.fn = "WaitForDeletion"
    /\ wpc = "done" /\ PollCount = 1
    /\ cancelled
    /\ PolledJob(1) /\ PolledState(1) = "DELETED"
    /\ wret = WaitRet(NilJob, NilErr)

\* the iteration that starts after the deadline returns the timeout error
\* without a poll, and a poll is sent only when the interval that began at the
\* return of the poll before has elapsed
ALoopPaces ==
    /\ (wpc = "top" /\ now > deadline /\ wpc' # wpc) =>
          /\ wpc' = "done"
          /\ wret' = WaitRet(NilJob, LoopTimeoutErr)
          /\ polls' = polls
    /\ (wpc = "getJob" /\ wpc' = "select") => timer' = now + pollInterval
    /\ (wpc = "select" /\ wpc' = "top") => now >= timer
    /\ (wpc = "top" /\ wpc' = "getJob" /\ PollCount >= 1) => now >= timer

\* C39: WaitForState, WaitForStableState and WaitForDeletion terminate when
\* every GetJob call returns and time advances: the wait returns, and at the
\* latest the first iteration that starts after the deadline returns the
\* timeout error; between the return of one poll and the call of the next at
\* least pollInterval elapses.
C39_WaitsTerminate ==
    /\ <>(wpc = "done")
    /\ [][ALoopPaces]_vars
    /\ []((wpc \in {"top", "getJob"} /\ PollCount >= 1) => now >= timer)

\* the wait polled twice, pollInterval apart or more, found the deadline passed
\* at the top of its third iteration and returned the timeout error
C39_Witness ==
    /\ wpc = "done"
    /\ PollCount = 2
    /\ PolledJob(1) /\ PolledJob(2)
    /\ ~cancelled
    /\ wret = WaitRet(NilJob, LoopTimeoutErr)
    /\ now > deadline
    /\ now >= win.at + 2 * pollInterval

(***************************************************************************)
(* The Job operations: CreateAsyncJob, GetJob, GetJobByName, UpdateJob,    *)
(* DeleteJob.                                                              *)
(***************************************************************************)
JobOps == {"CreateAsyncJob", "GetJob", "GetJobByName", "UpdateJob", "DeleteJob"}

\* the operation builds its path and calls doRequest, with a request body for
\* CreateAsyncJob and UpdateJob
JobOpCall ==
    /\ opc = "call"
    /\ oin.op \in JobOps
    /\ opc' = "request"
    /\ rpc' = "call"
    /\ rin' = [body |-> IF oin.op \in {"CreateAsyncJob", "UpdateJob"} THEN "json" ELSE "nil",
               urlOK |-> TRUE]
    /\ attempt' = 0
    /\ token' = ""
    /\ lastErr' = NilErr
    /\ rret' = NoReqRet
    /\ rlog' = NoLog
    /\ UNCHANGED <<now, ctxVars, server, resVars, oin, oret, tokenVars, lockVars, gVars,
                   fetchVars, waitVars>>

JobOpResult(op, r) ==
    CASE op = "CreateAsyncJob" -> CreateAsyncJobResult(r)
      [] op = "GetJob" -> GetJobResult(r)
      [] op = "GetJobByName" -> GetJobByNameResult(r)
      [] op = "UpdateJob" -> UpdateJobResult(r)
      [] op = "DeleteJob" -> DeleteJobResult(r)

\* doRequest has returned: the operation interprets the response and returns
JobOpReturn ==
    /\ opc = "request"
    /\ rpc = "done"
    /\ oret' = JobOpResult(oin.op, rret)
    /\ opc' = "done"
    /\ UNCHANGED <<now, ctxVars, server, resVars, oin, tokenVars, lockVars, gVars,
                   fetchVars, reqVars, waitVars>>

\* what the server answers to the request of a Job operation
OpOutcomes ==
    { Resp(200, JobJSON("job-1", "RUNNING")), Resp(200, "{}"), Resp(200, "<html>"),
      Resp(202, ""), Resp(400, "bad request"), Resp(404, "job not found"),
      Resp(409, "version conflict"), Resp(409, BrokenBody), Resp(500, "internal error") }
    \cup { Resp(200, JobsJSON(l)) : l \in ItemLists }
    \cup { TransportFail(NewErr("transport", "dial tcp: connection refused")) }

InitOps ==
    /\ now = 0
    /\ cancelled = FALSE
    /\ cancelledAt = 0
    /\ ResourceIdle
    /\ opc = "call"
    /\ oin \in [op : JobOps]
    /\ oret = [job |-> NilJob, err |-> NilErr]
    /\ \E t \in WaitInitialTokens : accessToken = t[1] /\ tokenExpiry = t[2]
    /\ CallersIdle
    /\ fetchCalls = 0
    /\ fetchLog = <<>>
    /\ RequestIdle
    /\ WaitIdle

NextOps ==
    \/ JobOpCall
    \/ DoRequestStart
    \/ DoRequestGetToken
    \/ DoRequestSend(OpOutcomes)
    \/ DoRequestSleep
    \/ JobOpReturn
    \/ Cancel

SpecOps == InitOps /\ [][NextOps]_vars

(***************************************************************************)
(* The Job operations: properties.                                         *)
(***************************************************************************)
\* the operation returned after doRequest returned a response of status >= 400
ReturnedErrorStatus ==
    /\ opc = "done" /\ oin.op \in JobOps
    /\ rret.err = NilErr /\ rret.resp.status >= 400

\* what the claim says of such a return: an *APIError with the status, no job,
\* IsNotFound for a 404, and for UpdateJob IsConflict for a 409 that was not
\* retried (exactly one PUT when the first PUT is answered 409)
ErrorStatusRule ==
    /\ oret.job = NilJob
    /\ oret.err.kind = "APIError"
    /\ oret.err.status = rret.resp.status
    /\ (oin.op \in {"GetJob", "DeleteJob"} /\ rret.resp.status = 404) => IsNotFound(oret.err)
    /\ (oin.op = "UpdateJob" /\ rret.resp.status = 409) =>
          /\ IsConflict(oret.err)
          /\ \A i \in 1..Attempts :
                (Answered(i) /\ Sent[i].out.resp.status = 409) => i = Attempts
          /\ (Answered(1) /\ Sent[1].out.resp.status = 409) => Attempts = 1

ReturnedList ==
    /\ opc = "done" /\ oin.op = "GetJobByName"
    /\ rret.err = NilErr /\ rret.resp.status < 400
    /\ IsJSONObject(rret.resp.body)

\* the items array of the list response is non-empty, and items is that array
ListedItems(items) == items # <<>> /\ rret.resp.body = JobsJSON(items)

\* C21: GetJobByName returns (nil, nil) when the successful list response has
\* an absent or empty items array, and the first item of the array with a nil
\* error when the array is non-empty; absence is never reported as an error.
C21_GetJobByName ==
    ReturnedList =>
        /\ oret.err = NilErr
        /\ \A items \in ItemLists : ListedItems(items) => oret.job = items[1]
        /\ (~ \E items \in ItemLists : ListedItems(items)) => oret.job = NilJob

\* C21 witness: a list of two jobs gives the first one, and no error.
C21_Witness ==
    /\ ReturnedList
    /\ rret.resp.body = JobsJSON(<<Job("job-1", "STOPPED"), Job("job-1", "RUNNING")>>)
    /\ oret.job = Job("job-1", "STOPPED")
    /\ oret.err = NilErr

\* C21 witness of absence: an empty items array gives (nil, nil).
C21_WitnessEmpty ==
    /\ ReturnedList
    /\ rret.resp.body = JobsJSON(<<>>)
    /\ oret.job = NilJob /\ oret.err = NilErr

(***************************************************************************)
(* The pipeline resource: Create and Update, and the API server they talk  *)
(* to.                                                                     *)
(***************************************************************************)
\* job_graph_json of a plan: graph A with its keys in another order and with
\* spaces, graph B, and a text that is no JSON
PlanGraphA == "{ \"edges\": [], \"vertices\": [ {\"name\": \"source\"} ] }"
PlanGraphTexts == { PlanGraphA, GraphJSON("B"), "not json" }

\* the texts json.Unmarshal accepts for a JobGraph, and the graph of each
ParsesTo(text, g) == text = GraphJSON(g) \/ (g = "A" /\ text = PlanGraphA)

\* parseJobGraph(jsonStr): (graph, err)
parseJobGraph(text) ==
    IF \E g \in Graphs : ParsesTo(text, g)
    THEN [graph |-> CHOOSE g \in Graphs : ParsesTo(text, g), err |-> NilErr]
    ELSE [graph |-> "",
          err |-> NewErr("json", "invalid character 'o' in literal null (expecting 'u')")]

\* tags and team_ids of a plan: null, or a collection with a null element,
\* which ElementsAs cannot put into a Go string
PlanCollections == {"null", "has null element"}

\* extractTags(ctx, plan.Tags): (tags, err)
extractTags(tags) ==
    IF tags = "null" THEN [tags |-> "nil", err |-> NilErr]
    ELSE [tags |-> "nil", err |-> NewErr("extract", "failed to extract tags")]

\* extractTeamIDs(ctx, plan.TeamIDs): (teamIDs, err)
extractTeamIDs(teamIDs) ==
    IF teamIDs = "null" THEN [teamIDs |-> "nil", err |-> NilErr]
    ELSE [teamIDs |-> "nil", err |-> NewErr("extract", "failed to extract team_ids")]

NoRequest == [nil |-> TRUE]

\* buildCreateRequest(ctx, plan): (request, tags, err)
buildCreateRequest(plan) ==
    LET g == parseJobGraph(plan.JobGraphJSON)
        t == extractTags(plan.Tags)
        i == extractTeamIDs(plan.TeamIDs)
    IN  IF g.err # NilErr
        THEN [req |-> NoRequest, tags |-> "nil",
              err |-> Wrap("build", "failed to parse job_graph_json", g.err)]
        ELSE IF t.err # NilErr
        THEN [req |-> NoRequest, tags |-> "nil",
              err |-> Wrap("build", "failed to extract tags", t.err)]
        ELSE IF i.err # NilErr
        THEN [req |-> NoRequest, tags |-> "nil",
              err |-> Wrap("build", "failed to extract team_ids", i.err)]
        ELSE [req |-> [nil |-> FALSE, Name |-> plan.Name, JobGraph |-> g.graph,
                       Tags |-> t.tags, TeamIds |-> i.teamIDs],
              tags |-> t.tags, err |-> NilErr]

\* buildUpdateRequest(ctx, plan, currentJob): (request, err)
buildUpdateRequest(plan, currentJob) ==
    LET g == parseJobGraph(plan.JobGraphJSON)
        i == extractTeamIDs(plan.TeamIDs)
    IN  IF g.err # NilErr
        THEN [req |-> NoRequest, err |-> Wrap("build", "failed to parse job_graph_json", g.err)]
        ELSE IF i.err # NilErr
        THEN [req |-> NoRequest, err |-> Wrap("build", "failed to extract team_ids", i.err)]
        ELSE [req |-> [nil |-> FALSE, FromVersion |-> currentJob.Version,
                       DesiredState |-> plan.DesiredState, JobGraph |-> g.graph,
                       TeamIds |-> i.teamIDs],
              err |-> NilErr]

\* an update test that looks at the desired state only
needsUpdateDesiredStateOnly(plan, currentJob) == plan.DesiredState # currentJob.DesiredState

\* needsUpdate(ctx, plan, currentJob)
needsUpdate(plan, currentJob) ==
    IF plan.DesiredState # currentJob.DesiredState THEN TRUE
    ELSE LET g == parseJobGraph(plan.JobGraphJSON)
         IN  IF g.err # NilErr THEN TRUE
             ELSE GraphJSON(g.graph) # GraphJSON(currentJob.JobGraph)

\* updateModelFromJob(ctx, &plan, job, &originalJobData{...}): the model that
\* is written to the state
updateModelFromJob(plan, job, original) ==
    [ID |-> job.Id, Name |-> job.Name, Version |-> job.Version, State |-> job.State,
     DesiredState |-> IF original.DesiredState # "" THEN original.DesiredState
                      ELSE job.DesiredState,
     JobGraphJSON |-> IF original.JobGraphJSON # "" THEN original.JobGraphJSON
                      ELSE plan.JobGraphJSON,
     Tags |-> original.Tags]

Diag(summary, detail) == [summary |-> summary, detail |-> detail]

ConflictDiag ==
    Diag("Version Conflict",
         "The pipeline was modified by another process. Please run terraform refresh and try again.")

\* err.(*client.APIError) with apiErr.IsConflict()
IsConflictError(e) == e.kind = "APIError" /\ IsConflict(e)

\* What a handler does next: it fails with a diagnostic, calls the client,
\* waits for the state, or writes the state from a job.
Fail(diag) == [kind |-> "fail", diag |-> diag]
CallClient(call, next, job) == [kind |-> "call", call |-> call, next |-> next, job |-> job]
WaitFor(job) == [kind |-> "wait", job |-> job]
Finish(job) == [kind |-> "finish", job |-> job]

GetJobByNameCall(name) == [op |-> "GetJobByName", name |-> name]
GetJobCall(id) == [op |-> "GetJob", id |-> id]
CreateAsyncJobCall(req) == [op |-> "CreateAsyncJob", req |-> req]
UpdateJobCall(id, req, rollbackEnabled) ==
    [op |-> "UpdateJob", id |-> id, req |-> req, rollbackEnabled |-> rollbackEnabled]

\* if plan.WaitForState.ValueBool() { ... } and what follows it
WaitOrFinish(plan, job) == IF plan.WaitForState THEN WaitFor(job) ELSE Finish(job)

\* Create, after GetJobByName returned ret: the adoption of an existing job,
\* or the creation of a new one
CreateAfterGetJobByName(plan, ret) ==
    IF ret.err # NilErr
    THEN Fail(Diag("Failed to check for existing pipeline", ErrorString(ret.err)))
    ELSE IF ~ret.job.nil
    THEN IF needsUpdate(plan, ret.job)
         THEN LET u == buildUpdateRequest(plan, ret.job)
                  t == extractTags(plan.Tags)
              IN  IF u.err # NilErr
                  THEN Fail(Diag("Failed to build update request", ErrorString(u.err)))
                  ELSE IF t.err # NilErr
                  THEN Fail(Diag("Failed to extract tags", ErrorString(t.err)))
                  ELSE CallClient(UpdateJobCall(ret.job.Id, u.req, plan.RollbackEnabled),
                                  "updateJob", ret.job)
         ELSE LET t == extractTags(plan.Tags)
              IN  IF t.err # NilErr
                  THEN Fail(Diag("Failed to extract tags", ErrorString(t.err)))
                  ELSE WaitOrFinish(plan, ret.job)
    ELSE LET c == buildCreateRequest(plan)
         IN  IF c.err # NilErr
             THEN Fail(Diag("Failed to build create request", ErrorString(c.err)))
             ELSE CallClient(CreateAsyncJobCall(c.req), "createAsyncJob", NilJob)

\* Create, after UpdateJob returned ret for the adopted job
CreateAfterUpdateJob(plan, ret) ==
    IF ret.err # NilErr
    THEN IF IsConflictError(ret.err)
         THEN Fail(ConflictDiag)
         ELSE Fail(Diag("Failed to update adopted pipeline", ErrorString(ret.err)))
    ELSE WaitOrFinish(plan, ret.job)

\* Create, after CreateAsyncJob returned ret
CreateAfterCreateAsyncJob(plan, ret) ==
    IF ret.err # NilErr
    THEN Fail(Diag("Failed to create pipeline", ErrorString(ret.err)))
    ELSE WaitOrFinish(plan, ret.job)

\* Update, after GetJob returned ret
UpdateAfterGetJob(plan, id, ret) ==
    IF ret.err # NilErr
    THEN Fail(Diag("Failed to read current pipeline state", ErrorString(ret.err)))
    ELSE LET u == buildUpdateRequest(plan, ret.job)
             t == extractTags(plan.Tags)
         IN  IF u.err # NilErr
             THEN Fail(Diag("Failed to build update request", ErrorString(u.err)))
             ELSE IF t.err # NilErr
             THEN Fail(Diag("Failed to extract tags", ErrorString(t.err)))
             ELSE CallClient(UpdateJobCall(id, u.req, plan.RollbackEnabled),
                             "updateJob", ret.job)

\* an Update that, on a conflict, reads the job again and repeats the PUT
UpdateAfterUpdateJobRetry(plan, ret) ==
    IF ret.err # NilErr
    THEN IF IsConflictError(ret.err)
         THEN CallClient(GetJobCall(hin.state.ID), "getJob", NilJob)
         ELSE Fail(Diag("Failed to update pipeline", ErrorString(ret.err)))
    ELSE WaitOrFinish(plan, ret.job)

\* Update, after UpdateJob returned ret
UpdateAfterUpdateJob(plan, ret) ==
    IF ret.err # NilErr
    THEN IF IsConflictError(ret.err)
         THEN Fail(ConflictDiag)
         ELSE Fail(Diag("Failed to update pipeline", ErrorString(ret.err)))
    ELSE WaitOrFinish(plan, ret.job)

\* the original values that Create and Update keep in the state
OriginalJobData(plan) ==
    [JobGraphJSON |-> plan.JobGraphJSON, Tags |-> extractTags(plan.Tags).tags,
     DesiredState |-> plan.DesiredState]

\* resp.State.Set(ctx, &plan) after updateModelFromJob
StateSet(plan, job) == <<updateModelFromJob(plan, job, OriginalJobData(plan))>>

\* the client call has returned ret to the handler
ClientReturned(h, ret) == [h EXCEPT !.rets = Append(@, ret)]

\* the handler, having done h, goes on as d says
Proceed(d, h) ==
    CASE d.kind = "fail" ->
           /\ hout' = [h EXCEPT !.diags = Append(@, d.diag)]
           /\ hpc' = "done"
           /\ UNCHANGED <<opVars, waitVars>>
      [] d.kind = "call" ->
           /\ hout' = [h EXCEPT !.calls = Append(@, d.call), !.job = d.job]
           /\ hpc' = d.next
           /\ opc' = "call"
           /\ oin' = d.call
           /\ oret' = [job |-> NilJob, err |-> NilErr]
           /\ UNCHANGED waitVars
      [] d.kind = "wait" ->
           /\ hout' = [h EXCEPT
                         !.calls = Append(@, [op |-> "WaitForState", id |-> d.job.Id,
                                              desiredState |-> hin.plan.DesiredState]),
                         !.job = d.job]
           /\ hpc' = "waitForState"
           /\ wpc' = "call"
           /\ win' = [fn |-> "WaitForState", id |-> d.job.Id,
                      desiredState |-> hin.plan.DesiredState,
                      timeout |-> hin.plan.StateTimeout * 1000, at |-> 0]
           /\ deadline' = 0
           /\ timer' = 0
           /\ wret' = WaitRet(NilJob, NilErr)
           /\ polls' = <<>>
           /\ UNCHANGED opVars
      [] d.kind = "finish" ->
           /\ hout' = [h EXCEPT !.state = StateSet(hin.plan, d.job), !.job = d.job]
           /\ hpc' = "done"
           /\ UNCHANGED <<opVars, waitVars>>

\* Create: the plan is read and GetJobByName is called
CreateStart ==
    /\ hpc = "call"
    /\ hin.fn = "Create"
    /\ Proceed(CallClient(GetJobByNameCall(hin.plan.Name), "getJobByName", NilJob), hout)
    /\ UNCHANGED <<now, ctxVars, server, hin, tokenVars, lockVars, gVars, fetchVars,
                   reqVars>>

CreateGotJobByName ==
    /\ hin.fn = "Create"
    /\ hpc = "getJobByName"
    /\ opc = "done"
    /\ Proceed(CreateAfterGetJobByName(hin.plan, oret), ClientReturned(hout, oret))
    /\ UNCHANGED <<now, ctxVars, server, hin, tokenVars, lockVars, gVars, fetchVars,
                   reqVars>>

CreateGotUpdateJob ==
    /\ hin.fn = "Create"
    /\ hpc = "updateJob"
    /\ opc = "done"
    /\ Proceed(CreateAfterUpdateJob(hin.plan, oret), ClientReturned(hout, oret))
    /\ UNCHANGED <<now, ctxVars, server, hin, tokenVars, lockVars, gVars, fetchVars,
                   reqVars>>

CreateGotCreateAsyncJob ==
    /\ hin.fn = "Create"
    /\ hpc = "createAsyncJob"
    /\ opc = "done"
    /\ Proceed(CreateAfterCreateAsyncJob(hin.plan, oret), ClientReturned(hout, oret))
    /\ UNCHANGED <<now, ctxVars, server, hin, tokenVars, lockVars, gVars, fetchVars,
                   reqVars>>

\* Update: the plan and the state are read and GetJob is called
UpdateStart ==
    /\ hpc = "call"
    /\ hin.fn = "Update"
    /\ Proceed(CallClient(GetJobCall(hin.state.ID), "getJob", NilJob), hout)
    /\ UNCHANGED <<now, ctxVars, server, hin, tokenVars, lockVars, gVars, fetchVars,
                   reqVars>>

UpdateGotJob ==
    /\ hin.fn = "Update"
    /\ hpc = "getJob"
    /\ opc = "done"
    /\ Proceed(UpdateAfterGetJob(hin.plan, hin.state.ID, oret), ClientReturned(hout, oret))
    /\ UNCHANGED <<now, ctxVars, server, hin, tokenVars, lockVars, gVars, fetchVars,
                   reqVars>>

UpdateGotUpdateJob ==
    /\ hin.fn = "Update"
    /\ hpc = "updateJob"
    /\ opc = "done"
    /\ Proceed(UpdateAfterUpdateJob(hin.plan, oret), ClientReturned(hout, oret))
    /\ UNCHANGED <<now, ctxVars, server, hin, tokenVars, lockVars, gVars, fetchVars,
                   reqVars>>

\* WaitForState returned: a failure is reported, and the state is written from
\* the job it returned, or from the job the handler had
HandlerWaited ==
    /\ hpc = "waitForState"
    /\ wpc = "done"
    /\ hout' = [hout EXCEPT
                  !.rets = Append(@, wret),
                  !.diags = IF wret.err # NilErr
                            THEN Append(@, Diag("Pipeline did not reach desired state",
                                                  "Pipeline "
                                                  \o (IF hin.fn = "Create" THEN "created"
                                                      ELSE "updated")
                                                  \o " but did not reach state "
                                                  \o hin.plan.DesiredState \o ": "
                                                  \o ErrorString(wret.err)))
                            ELSE @,
                  !.job = IF ~wret.job.nil THEN wret.job ELSE @,
                  !.state = StateSet(hin.plan, IF ~wret.job.nil THEN wret.job ELSE hout.job)]
    /\ hpc' = "done"
    /\ UNCHANGED <<now, ctxVars, opVars, server, hin, tokenVars, lockVars, gVars, fetchVars,
                   reqVars, waitVars>>

\* The API server keeps one job, or none.  It answers a request from the job
\* it has, and a POST or a PUT that it accepts changes the job.
ServerJob(srv) == srv.job

\* the job a PUT /api/v1/jobs/{id} leaves, applied without the version test
ApplyUpdate(job, req) ==
    [job EXCEPT !.Version = job.Version + 1, !.State = "UPDATING",
                !.DesiredState = req.DesiredState, !.JobGraph = req.JobGraph]

\* the job a POST /api/v1/jobs/async leaves
ApplyCreate(req) == JobOf("job-1", req.Name, FirstVersion, "PENDING", "RUNNING", req.JobGraph)

\* the answer to one request, and the job the server has afterwards
ServerAnswer(req, job) ==
    CASE req.op = "GetJobByName" ->
           [out |-> Resp(200, JobsJSON(IF job.nil \/ job.Name # req.name THEN <<>>
                                       ELSE <<job>>)),
            job |-> job]
      [] req.op = "GetJob" ->
           [out |-> IF job.nil \/ job.Id # req.id THEN Resp(404, "job not found")
                    ELSE Resp(200, JobText(job)),
            job |-> job]
      [] req.op = "CreateAsyncJob" ->
           IF ~job.nil
           THEN [out |-> Resp(409, "job already exists"), job |-> job]
           ELSE [out |-> Resp(202, JobText(ApplyCreate(req.req))), job |-> ApplyCreate(req.req)]
      [] req.op = "UpdateJob" ->
           IF job.nil \/ job.Id # req.id
           THEN [out |-> Resp(404, "job not found"), job |-> job]
           ELSE IF req.req.FromVersion # job.Version
           THEN [out |-> Resp(409, "version conflict"), job |-> job]
           ELSE [out |-> Resp(200, JobText(ApplyUpdate(job, req.req))),
                 job |-> ApplyUpdate(job, req.req)]

\* One exchange: the answer arrives; or, a bounded number of times, the server
\* fails with a 500 before it does anything, the answer is lost on the way
\* back, or the body of the answer cannot be read to its end.
Exchanges(req, srv) ==
    LET a == ServerAnswer(req, srv.job)
    IN  { [out |-> a.out, server |-> [srv EXCEPT !.job = a.job]] }
        \cup IF srv.faults < MaxFaults
             THEN { [out |-> Resp(500, "internal error"),
                     server |-> [srv EXCEPT !.faults = @ + 1]],
                    [out |-> TransportFail(NewErr("transport", "read: connection reset by peer")),
                     server |-> [srv EXCEPT !.job = a.job, !.faults = @ + 1]],
                    [out |-> Resp(a.out.resp.status, BrokenBody),
                     server |-> [srv EXCEPT !.job = a.job, !.faults = @ + 1]] }
             ELSE {}

\* the request doRequest is sending: the GetJob of a wait loop, or the request
\* of the Job operation called
CurrentRequest == IF wpc = "getJob" THEN GetJobCall(win.id) ELSE oin

\* an attempt sent to the API server
ServerSend ==
    /\ rpc = "send"
    /\ IF cancelled \/ ~rin.urlOK
       THEN SendAttempt({}) /\ UNCHANGED server
       ELSE \E x \in Exchanges(CurrentRequest, server) :
              SendAttempt({x.out}) /\ server' = x.server

\* another client of the API changes the job between two requests of the handler
OtherWriter ==
    /\ hpc \notin {"idle", "call", "done"}
    /\ ~server.job.nil
    /\ server.others < MaxOtherWrites
    /\ server' = [server EXCEPT
                    !.job = [@ EXCEPT !.Version = @ + 1, !.State = "UPDATING",
                                      !.DesiredState = IF @ = "RUNNING" THEN "STOPPED"
                                                       ELSE "RUNNING"],
                    !.others = @ + 1]
    /\ UNCHANGED <<now, ctxVars, opVars, resVars, tokenVars, lockVars, gVars, fetchVars,
                   reqVars, waitVars>>

\* the job reaches the state it is to have
ServerSettle ==
    /\ hpc \notin {"idle", "call", "done"}
    /\ ~server.job.nil
    /\ server.job.State \in {"PENDING", "UPDATING"}
    /\ server' = [server EXCEPT !.job.State = server.job.DesiredState]
    /\ UNCHANGED <<now, ctxVars, opVars, resVars, tokenVars, lockVars, gVars, fetchVars,
                   reqVars, waitVars>>

\* the context of the handler is cancelled while the handler waits for the state
CancelWaiting == wpc = "select" /\ Cancel

\* the pipeline that exists before the handler runs
ExistingJob == JobOf("job-1", "pipe", FirstVersion, "RUNNING", "RUNNING", "A")

Plans ==
    [Name : JobNames, JobGraphJSON : PlanGraphTexts, DesiredState : {"RUNNING", "STOPPED"},
     Tags : PlanCollections, TeamIDs : PlanCollections, WaitForState : BOOLEAN,
     StateTimeout : {5}, RollbackEnabled : {FALSE}]

HandlerInputs == [fn : {"Create", "Update"}, plan : Plans, state : [ID : {"job-1"}]]

InitResource ==
    /\ now = 0
    /\ cancelled = FALSE
    /\ cancelledAt = 0
    /\ server \in { NoServer, [NoServer EXCEPT !.job = ExistingJob] }
    /\ hpc = "call"
    /\ hin \in HandlerInputs
    /\ hout = NoOutput
    /\ OpIdle
    /\ \E t \in WaitInitialTokens : accessToken = t[1] /\ tokenExpiry = t[2]
    /\ CallersIdle
    /\ fetchCalls = 0
    /\ fetchLog = <<>>
    /\ RequestIdle
    /\ WaitIdle

NextResource ==
    \/ CreateStart
    \/ CreateGotJobByName
    \/ CreateGotUpdateJob
    \/ CreateGotCreateAsyncJob
    \/ UpdateStart
    \/ UpdateGotJob
    \/ UpdateGotUpdateJob
    \/ HandlerWaited
    \/ JobOpCall
    \/ JobOpReturn
    \/ WaitForStateCall
    \/ WaitForStateTop
    \/ WaitForStatePolled
    \/ WaitForStateCtxDone
    \/ WaitForStateTimer
    \/ DoRequestStart
    \/ DoRequestGetToken
    \/ DoRequestSleep
    \/ ServerSend
    \/ OtherWriter
    \/ ServerSettle
    \/ CancelWaiting
    \/ WaitClock

SpecResource == InitResource /\ [][NextResource]_vars

(***************************************************************************)
(* The pipeline resource: properties.                                      *)
(***************************************************************************)
\* the client calls of the handler that are calls of op
CallsOf(op) == { i \in 1..Len(hout.calls) : hout.calls[i].op = op }
Called(op) == CallsOf(op) # {}

\* GetJobByName returned a job and no error
FoundJob(r) == r.err = NilErr /\ ~r.job.nil

\* the planned desired state or the planned job graph is not the job's
PlanDiffers(plan, job) ==
    \/ plan.DesiredState # job.DesiredState
    \/ ~ParsesTo(plan.JobGraphJSON, job.JobGraph)

\* the plan holds what an update request is built from
CanBuildUpdate(plan) ==
    /\ \E g \in Graphs : ParsesTo(plan.JobGraphJSON, g)
    /\ plan.TeamIDs = "null"
    /\ plan.Tags = "null"

PlanDiffersAndBuilds(plan, job) == PlanDiffers(plan, job) /\ CanBuildUpdate(plan)

\* what Create does once GetJobByName has returned, UpdateExpected being when
\* the adopted job is to be updated
AdoptionRule(UpdateExpected(_, _)) ==
    (hin.fn = "Create" /\ Len(hout.rets) >= 1) =>
       LET r == hout.rets[1]
       IN  /\ FoundJob(r) =>
                /\ ~Called("CreateAsyncJob")
                /\ \A i \in CallsOf("UpdateJob") \cup CallsOf("WaitForState") :
                      hout.calls[i].id = r.job.Id
                /\ hout.state # <<>> => hout.state[1].ID = r.job.Id
                /\ \A i \in CallsOf("UpdateJob") :
                      hout.calls[i].req.FromVersion = r.job.Version
                /\ Called("UpdateJob") <=> UpdateExpected(hin.plan, r.job)
           /\ Called("CreateAsyncJob") => (r.err = NilErr /\ r.job.nil)

\* C24 as stated: Create adopts the job GetJobByName returned: it never calls
\* CreateAsyncJob, goes on with the job's id, and calls UpdateJob, with the
\* job's version as fromVersion, if and only if the planned desired state or
\* job graph differs from the job; CreateAsyncJob is called only when
\* GetJobByName returned nil and no error.
C24_Original == AdoptionRule(PlanDiffers)

\* C24, amended: the same, with UpdateJob called if and only if the plan
\* differs from the job and the update request can be built from the plan
\* (job_graph_json parses, team_ids and tags can be extracted); when the plan
\* differs and the request cannot be built, Create ends with a diagnostic and
\* without another client call.
C24_CreateAdopts ==
    /\ AdoptionRule(PlanDiffersAndBuilds)
    /\ (/\ hin.fn = "Create"
        /\ Len(hout.rets) >= 1
        /\ FoundJob(hout.rets[1])
        /\ PlanDiffers(hin.plan, hout.rets[1].job)
        /\ ~CanBuildUpdate(hin.plan))
       => /\ hpc = "done"
          /\ Len(hout.calls) = 1
          /\ Len(hout.diags) = 1
          /\ hout.state = <<>>

\* an adopted job was updated from its version and the state was written with
\* its id
C24_Witness ==
    /\ hin.fn = "Create"
    /\ hpc = "done"
    /\ Len(hout.rets) >= 2
    /\ FoundJob(hout.rets[1])
    /\ hout.rets[1].job.Version = FirstVersion
    /\ hin.plan.DesiredState = "STOPPED"
    /\ Called("UpdateJob")
    /\ hout.calls[2].req.FromVersion = FirstVersion
    /\ hout.state # <<>>
    /\ hout.state[1].ID = "job-1"
    /\ hout.state[1].Version = FirstVersion + 1

\* an adopted job that the plan does not differ from: no update, no creation
C24_WitnessNoUpdate ==
    /\ hin.fn = "Create"
    /\ hpc = "done"
    /\ FoundJob(hout.rets[1])
    /\ hin.plan.JobGraphJSON = PlanGraphA
    /\ hin.plan.JobGraphJSON # GraphJSON("A")
    /\ ~PlanDiffers(hin.plan, hout.rets[1].job)
    /\ hout.calls = <<GetJobByNameCall("pipe")>>
    /\ hout.state # <<>>

\* no job of the name: the job is created
C24_WitnessCreated ==
    /\ hin.fn = "Create"
    /\ hpc = "done"
    /\ hout.rets[1] = [job |-> NilJob, err |-> NilErr]
    /\ Called("CreateAsyncJob")
    /\ hout.state # <<>>

\* the planned desired state differs from the adopted job's, the planned
\* job_graph_json is no JSON, and UpdateJob was not called
C24_WitnessNotBuilt ==
    /\ hin.fn = "Create"
    /\ hpc = "done"
    /\ FoundJob(hout.rets[1])
    /\ hin.plan.DesiredState # hout.rets[1].job.DesiredState
    /\ hin.plan.JobGraphJSON = "not json"
    /\ ~Called("UpdateJob")
    /\ hout.diags[1].summary = "Failed to build update request"

\* the final response to the PUT of Update had status 409
UpdateGot409 ==
    /\ hin.fn = "Update"
    /\ Len(hout.rets) >= 2
    /\ hout.calls[2].op = "UpdateJob"
    /\ hout.rets[2].job.nil
    /\ rret.err = NilErr
    /\ rret.resp.status = 409

\* Update reads the job first and sends the version it read
UpdateReadsThenSends ==
    hin.fn = "Update" =>
       /\ Len(hout.calls) >= 1 => hout.calls[1] = GetJobCall(hin.state.ID)
       /\ \A i \in CallsOf("UpdateJob") :
             /\ i = 2
             /\ hout.rets[1].err = NilErr
             /\ hout.calls[i].id = hin.state.ID
             /\ hout.calls[i].req.FromVersion = hout.rets[1].job.Version

\* Update ended after its PUT, with the diagnostic diag and nothing else done
UpdateEndedWith(diag) ==
    /\ hpc = "done"
    /\ hout.diags = <<diag>>
    /\ hout.calls = <<GetJobCall(hin.state.ID), hout.calls[2]>>
    /\ hout.state = <<>>

\* C25 as stated: Update reads the job with GetJob, sends UpdateJob with the
\* version it read as fromVersion, and a 409 of the server makes it fail with
\* the 'Version Conflict' diagnostic, without another GetJob or PUT, without
\* WaitForState and without writing state.
C25_Original ==
    /\ UpdateReadsThenSends
    /\ UpdateGot409 => UpdateEndedWith(ConflictDiag)

\* C25, amended: the same for a 409 whose body can be read; a 409 whose body
\* cannot be read makes Update fail with 'Failed to update pipeline', also
\* without another call and without writing state.
C25_UpdateLocking ==
    /\ UpdateReadsThenSends
    /\ (UpdateGot409 /\ rret.resp.body # BrokenBody) => UpdateEndedWith(ConflictDiag)
    /\ (UpdateGot409 /\ rret.resp.body = BrokenBody) =>
          /\ hout.diags # <<>>
          /\ UpdateEndedWith(Diag("Failed to update pipeline", ErrorString(hout.rets[2].err)))

\* another writer changed the job after Update had read version FirstVersion:
\* the PUT sent that version, the server answered 409 and kept the other
\* writer's job, and Update ended with 'Version Conflict'
C25_Witness ==
    /\ UpdateGot409
    /\ hout.rets[1].job.Version = FirstVersion
    /\ hout.calls[2].req.FromVersion = FirstVersion
    /\ server.others = 1
    /\ server.faults = 0
    /\ server.job.Version = FirstVersion + 1
    /\ server.job.DesiredState = "STOPPED"
    /\ hin.plan.DesiredState = "RUNNING"
    /\ UpdateEndedWith(ConflictDiag)

\* the body of the 409 could not be read
C25_WitnessUnreadable ==
    /\ UpdateGot409
    /\ rret.resp.body = BrokenBody
    /\ server.others = 1
    /\ hpc = "done"
    /\ hout.diags[1].summary = "Failed to update pipeline"

\* the calls of UpdateJob that returned an error for which IsConflict() is true
ConflictReturns ==
    { i \in CallsOf("UpdateJob") : i <= Len(hout.rets) /\ IsConflictError(hout.rets[i].err) }

\* C34 (the claim as stated): UpdateJob returns an error for which IsConflict()
\* is true only if the server's version of the job differed from fromVersion
\* already before the first PUT of the call, never because of the call's own
\* PUT sent again by doRequest.  The handlers send the version they have just
\* read, and the own PUTs apart only another writer changes the job: so the
\* versions differ before the first PUT only when another writer has changed
\* the job, and a conflict is returned only then.
C34_Original == ConflictReturns # {} => server.others > 0

(***************************************************************************)
(* The functions of the client called on their own: calculateBackoff, the  *)
(* predicates of APIError, handleResponse.                                 *)
(***************************************************************************)
BackoffInputs == [op : {"calculateBackoff"}, attempt : 0..MaxAttempt]

ErrorInputs ==
    [op : {"APIError"}, status : 0..MaxStatusCode, body : {"", "job not found"}]

ResponseStatuses == {200, 202, 204, 301, 399, 400, 404, 409, 500, 503}

ResponseBodies ==
    { "", "{}", "<html>", "job not found", BrokenBody,
      JobJSON("job-1", "RUNNING"), JobsJSON(<<Job("job-1", "RUNNING")>>) }

ResponseInputs ==
    [op : {"handleResponse"}, status : ResponseStatuses, body : ResponseBodies,
     target : {"nil", "Job", "JobsResponse"}]

\* a JobState is a string: the sixteen states of the API, and any other text
StateInputs == [op : {"JobState"}, state : JobStates \cup {"", "UNKNOWN", "running"}]

\* IsTerminal(s) and IsStable(s)
JobStateCall ==
    /\ opc = "call"
    /\ oin.op = "JobState"
    /\ oret' = [IsTerminal |-> IsTerminal(oin.state), IsStable |-> IsStable(oin.state)]
    /\ opc' = "done"
    /\ UNCHANGED <<now, ctxVars, server, resVars, oin, tokenVars, lockVars, gVars,
                   fetchVars, reqVars, waitVars>>

\* delay := calculateBackoff(attempt)
CalculateBackoffCall ==
    /\ opc = "call"
    /\ oin.op = "calculateBackoff"
    /\ oret' = [delay |-> calculateBackoff(oin.attempt)]
    /\ opc' = "done"
    /\ UNCHANGED <<now, ctxVars, server, resVars, oin, tokenVars, lockVars, gVars,
                   fetchVars, reqVars, waitVars>>

\* the eight predicates called on &APIError{StatusCode: status, Message: body}
APIErrorCall ==
    /\ opc = "call"
    /\ oin.op = "APIError"
    /\ LET e == APIError(oin.status, oin.body)
       IN  oret' = [IsNotFound |-> IsNotFound(e),
                    IsConflict |-> IsConflict(e),
                    IsBadRequest |-> IsBadRequest(e),
                    IsUnauthorized |-> IsUnauthorized(e),
                    IsForbidden |-> IsForbidden(e),
                    IsClientError |-> IsClientError(e),
                    IsServerError |-> IsServerError(e),
                    IsRetryable |-> IsRetryable(e)]
    /\ opc' = "done"
    /\ UNCHANGED <<now, ctxVars, server, resVars, oin, tokenVars, lockVars, gVars,
                   fetchVars, reqVars, waitVars>>

\* err := handleResponse(resp, result)
HandleResponseCall ==
    /\ opc = "call"
    /\ oin.op = "handleResponse"
    /\ oret' = handleResponse([status |-> oin.status, body |-> oin.body], oin.target)
    /\ opc' = "done"
    /\ UNCHANGED <<now, ctxVars, server, resVars, oin, tokenVars, lockVars, gVars,
                   fetchVars, reqVars, waitVars>>

\* a types.String of the provider configuration: null, unknown, or a value
StringNull == [null |-> TRUE, unknown |-> FALSE, value |-> ""]
StringUnknown == [null |-> FALSE, unknown |-> TRUE, value |-> ""]
StringValue(v) == [null |-> FALSE, unknown |-> FALSE, value |-> v]

\* getConfigValue(configValue, envVar), env being the environment
getConfigValue(configValue, envVar, env) ==
    IF ~configValue.null /\ ~configValue.unknown
    THEN configValue.value
    ELSE env[envVar]

defaultAuth0Domain == "grepr-prod.us.auth0.com"

\* client.NewClient(cfg): the fields of the client that come from cfg
NewClient(cfg) ==
    [host |-> cfg.Host, clientID |-> cfg.ClientID, clientSecret |-> cfg.ClientSecret,
     auth0Domain |-> IF cfg.Auth0Domain = "" THEN defaultAuth0Domain ELSE cfg.Auth0Domain]

\* url.Parse(host).Scheme for the hosts of the model
HostScheme(host) ==
    CASE host \in {"https://attr.grepr.ai", "https://env.grepr.ai"} -> "https"
      [] OTHER -> ""

\* the diagnostics Configure adds for the values it settled on
ConfigureDiags(host, clientID, clientSecret) ==
    (IF host = "" THEN <<"Missing Host Configuration">>
     ELSE IF HostScheme(host) \notin {"http", "https"} THEN <<"Invalid Host URL Scheme">>
     ELSE <<>>)
    \o (IF clientID = "" THEN <<"Missing Client ID Configuration">> ELSE <<>>)
    \o (IF clientSecret = "" THEN <<"Missing Client Secret Configuration">> ELSE <<>>)

NoClient == [nil |-> TRUE]

\* Configure(ctx, req, resp) with the configuration config and the environment
\* env: the diagnostics, and the client given to the resources
Configure(config, env) ==
    LET host == getConfigValue(config.Host, "GREPR_HOST", env)
        clientID == getConfigValue(config.ClientID, "GREPR_CLIENT_ID", env)
        clientSecret == getConfigValue(config.ClientSecret, "GREPR_CLIENT_SECRET", env)
        auth0Domain == getConfigValue(config.Auth0Domain, "GREPR_AUTH0_DOMAIN", env)
        diags == ConfigureDiags(host, clientID, clientSecret)
    IN  IF diags # <<>>
        THEN [diags |-> diags, client |-> NoClient]
        ELSE [diags |-> <<>>,
              client |-> [nil |-> FALSE] @@
                         NewClient([Host |-> host, ClientID |-> clientID,
                                    ClientSecret |-> clientSecret,
                                    Auth0Domain |-> auth0Domain])]

\* the provider block and the environment; os.Getenv of an unset variable is ""
ProviderConfigs ==
    [Host : {StringNull, StringValue("https://attr.grepr.ai"), StringValue("attr.grepr.ai")},
     ClientID : {StringNull, StringUnknown, StringValue("attr-id")},
     ClientSecret : {StringNull, StringValue("attr-secret")},
     Auth0Domain : {StringNull, StringValue("attr.auth0.com")}]

Environments ==
    [GREPR_HOST : {"", "https://env.grepr.ai"}, GREPR_CLIENT_ID : {"", "env-id"},
     GREPR_CLIENT_SECRET : {"", "env-secret"}, GREPR_AUTH0_DOMAIN : {"", "env.auth0.com"}]

ConfigureInputs == [op : {"Configure"}, config : ProviderConfigs, env : Environments]

\* Configure is called by Terraform
ConfigureCall ==
    /\ opc = "call"
    /\ oin.op = "Configure"
    /\ oret' = Configure(oin.config, oin.env)
    /\ opc' = "done"
    /\ UNCHANGED <<now, ctxVars, server, resVars, oin, tokenVars, lockVars, gVars,
                   fetchVars, reqVars, waitVars>>

InitPure ==
    /\ now = 0
    /\ cancelled = FALSE
    /\ cancelledAt = 0
    /\ ResourceIdle
    /\ opc = "call"
    /\ oin \in BackoffInputs \cup ErrorInputs \cup ResponseInputs \cup StateInputs
              \cup ConfigureInputs
    /\ oret = [err |-> NilErr]
    /\ \E t \in WaitInitialTokens : accessToken = t[1] /\ tokenExpiry = t[2]
    /\ CallersIdle
    /\ fetchCalls = 0
    /\ fetchLog = <<>>
    /\ RequestIdle
    /\ WaitIdle

NextPure ==
    \/ CalculateBackoffCall
    \/ APIErrorCall
    \/ HandleResponseCall
    \/ JobStateCall
    \/ ConfigureCall

SpecPure == InitPure /\ [][NextPure]_vars

(***************************************************************************)
(* calculateBackoff, APIError, handleResponse: properties.                 *)
(***************************************************************************)
Returned(op) == opc = "done" /\ oin.op = op

\* C17 (the claim as stated): calculateBackoff(n) is min(100ms * 2^n, 5000ms)
\* for every n >= 0: 100ms * 2^n for n <= 5, and 5000ms for every n >= 6.
C17_Original ==
    Returned("calculateBackoff") =>
        oret.delay = Duration(IF oin.attempt >= 6 THEN 5000 ELSE 100 * (2 ^ oin.attempt))

\* C18: for every status code c (and whatever the message), IsClientError is
\* 400 <= c < 500, IsServerError is c >= 500, IsRetryable equals
\* IsServerError, IsBadRequest, IsUnauthorized, IsForbidden, IsNotFound and
\* IsConflict hold exactly for 400, 401, 403, 404 and 409, and IsClientError
\* and IsServerError are never both true.
C18_Predicates ==
    Returned("APIError") =>
        LET c == oin.status
        IN  /\ oret.IsClientError <=> (400 <= c /\ c < 500)
            /\ oret.IsServerError <=> (c >= 500)
            /\ oret.IsRetryable <=> oret.IsServerError
            /\ oret.IsBadRequest <=> (c = 400)
            /\ oret.IsUnauthorized <=> (c = 401)
            /\ oret.IsForbidden <=> (c = 403)
            /\ oret.IsNotFound <=> (c = 404)
            /\ oret.IsConflict <=> (c = 409)
            /\ ~(oret.IsClientError /\ oret.IsServerError)

\* C18 witness: status 500 with a message is a server error, retryable, and no
\* client error.
C18_Witness ==
    /\ Returned("APIError")
    /\ oin.status = 500 /\ oin.body = "job not found"
    /\ oret.IsServerError /\ oret.IsRetryable /\ ~oret.IsClientError

\* handleResponse decoded the body into the result
Decoded ==
    /\ oret.err = NilErr
    /\ oin.target # "nil"
    /\ oret.result = UnmarshalInto(oin.body, oin.target)

\* handleResponse left the result as it was
Untouched == oret.result = ZeroValue(oin.target)

\* what the claim says of a response with status c
StatusRule ==
    LET c == oin.status
    IN  /\ (oret.err.kind = "APIError") <=> (c >= 400)
        /\ c >= 400 => (oret.err = APIError(c, oin.body) /\ Untouched)
        /\ (c < 400 /\ oin.target # "nil" /\ oin.body # "") =>
              \/ Decoded
              \/ /\ oret.err.kind = "decode"
                 /\ oret.err.msg = "failed to decode response: " \o oret.err.cause[1].msg
                 /\ Untouched
        /\ (c < 400 /\ (oin.target = "nil" \/ oin.body = "")) =>
              (oret.err = NilErr /\ Untouched)

\* C19 (the claim as stated): handleResponse returns an *APIError with the
\* status and the full body if and only if status >= 400; for status < 400 it
\* decodes only when a target is given and the body is non-empty, and a decode
\* failure is a wrapped decode error that is not an *APIError.
C19_Original == Returned("handleResponse") => StatusRule

\* C19 (amended): the same for every response whose body can be read; a
\* response whose body cannot be read gives a wrapped read error that is not
\* an *APIError, whatever its status, and leaves the result as it was.
C19_HandleResponse ==
    Returned("handleResponse") =>
        IF oin.body # BrokenBody
        THEN StatusRule
        ELSE /\ oret.err.kind = "read"
             /\ oret.err.msg = "failed to read response body: " \o oret.err.cause[1].msg
             /\ Untouched

\* C19 witness: a 404 with the body "job not found" and a Job target gives the
\* APIError with that status and body.
C19_Witness ==
    /\ Returned("handleResponse")
    /\ oin.status = 404 /\ oin.body = "job not found" /\ oin.target = "Job"
    /\ oret.err = APIError(404, "job not found")
    /\ ErrorString(oret.err) = "API error (status 404): job not found"

\* the initial and transitional states
TransitionalStates ==
    { "CREATED", "PENDING", "STARTING", "STOPPING", "UPDATING", "ROLLING_BACK",
      "INFRA_UPDATE", "INFRA_UPDATE_WAIT", "VERIFYING", "WAITING" }

\* C23: IsTerminal(s) holds exactly for FINISHED, FAILED, CANCELLED and
\* DELETED, and IsStable(s) exactly for RUNNING, STOPPED and those four; so
\* every terminal state is stable, and every initial or transitional state and
\* every unknown state is neither.
C23_TerminalStable ==
    Returned("JobState") =>
        LET s == oin.state
        IN  /\ oret.IsTerminal <=> s \in {"FINISHED", "FAILED", "CANCELLED", "DELETED"}
            /\ oret.IsStable <=>
                  s \in {"RUNNING", "STOPPED", "FINISHED", "FAILED", "CANCELLED", "DELETED"}
            /\ oret.IsTerminal => oret.IsStable
            /\ s \in TransitionalStates => (~oret.IsTerminal /\ ~oret.IsStable)
            /\ s \notin JobStates => (~oret.IsTerminal /\ ~oret.IsStable)

\* C23 witness: FAILED is terminal and stable.
C23_Witness ==
    /\ Returned("JobState") /\ oin.state = "FAILED"
    /\ oret.IsTerminal /\ oret.IsStable

\* C23 witness of an unknown state: neither terminal nor stable.
C23_WitnessUnknown ==
    /\ Returned("JobState") /\ oin.state = "UNKNOWN"
    /\ ~oret.IsTerminal /\ ~oret.IsStable

\* the settings of the provider: the attribute of the provider block, the
\* environment variable and the field of the client
Settings ==
    { <<"Host", "GREPR_HOST", "host">>, <<"ClientID", "GREPR_CLIENT_ID", "clientID">>,
      <<"ClientSecret", "GREPR_CLIENT_SECRET", "clientSecret">>,
      <<"Auth0Domain", "GREPR_AUTH0_DOMAIN", "auth0Domain">> }

\* the attribute and the environment variable of setting s are both set
BothSet(s) ==
    /\ ~oin.config[s[1]].null
    /\ ~oin.config[s[1]].unknown
    /\ oin.env[s[2]] # ""

\* C26 (the claim as stated): for each provider setting, when the provider
\* block attribute and the GREPR_* environment variable are both set, the
\* client is built with the value of the environment variable.
C26_Original ==
    (Returned("Configure") /\ ~oret.client.nil) =>
       \A s \in Settings : BothSet(s) => oret.client[s[3]] = oin.env[s[2]]

\* what the code does: the client is built with the value of the attribute
C26_AttributeWins ==
    (Returned("Configure") /\ ~oret.client.nil) =>
       \A s \in Settings : BothSet(s) => oret.client[s[3]] = oin.config[s[1]].value

\* host is set in the provider block and in GREPR_HOST, and the client is
\* built for the host of the provider block
C26_Witness ==
    /\ Returned("Configure")
    /\ oin.config.Host = StringValue("https://attr.grepr.ai")
    /\ oin.env.GREPR_HOST = "https://env.grepr.ai"
    /\ ~oret.client.nil
    /\ oret.client.host = "https://attr.grepr.ai"

====
